---- MODULE Spec2Model ----
(***************************************************************************)
(* Model of the metronome beat scheduler (gui-metronome2/src/main.rs,      *)
(* metronome_thread) together with the command / event channels and the    *)
(* shared state it publishes for the presentation thread, and of the       *)
(* terminal metronome (gui-metronome/src/main.rs): its beat loop and the   *)
(* key handlers that act on the same atomics, and of the first terminal    *)
(* metronome (src/main.rs), which keeps the same state behind one mutex.   *)
(* A run executes one of the three binaries.                               *)
(*                                                                         *)
(* Time is counted in milliseconds.  The f32 second counters of            *)
(* CountdownState (remaining_seconds, next_bpm_change) are held in         *)
(* milliseconds as well, with exact arithmetic.                            *)
(***************************************************************************)
EXTENDS Integers, Sequences, FiniteSets, TLC

(***************************************************************************)
(* Bounds of the exploration                                               *)
(***************************************************************************)
\* the number of commands sent in a run, for each of the producers below
MaxCommands == 2
MaxSessionCommands == 3
MaxStartCommands == 4
MaxCountdownCommands == 4
MaxRandomCommands == 3
MaxTimingCommands == 3
MaxRandomUpdateCommands == 4
MaxSequenceCommands == 3
MaxRitardandoCommands == 4
MaxSubdivisionCommands == 3
MaxPlaybackCommands == 3
MaxTempoCommands == 4
MaxPracticeCommands == 3
MaxDrainCommands == 3
MaxParameterCommands == 3
MaxAccentCommands == 3
MaxDegenerateCommands == 3
MaxKeys == 3
MaxKeyTicks == 1
MaxLoopTicks == 101     \* ticks of the terminal beat loop in a run
MaxTime == 2000         \* the clock stops advancing past this instant (ms)
MaxSequenceTime == 7000 \* the same, for the runs that follow a sequence
MaxTempoTime == 10000   \* the same, for the runs that follow a countdown
MaxAccentTime == 1200   \* the same, for the first beats of a countdown
MaxDegenerateTime == 60000  \* the same, for one beat at the slowest tempo

\* how long one pass through thread::sleep(1ms) may take (ms): the sleep
\* returns after at least 1 ms, and arbitrarily later under load
SleepSteps == {500, 1000}
FineSleepSteps == {250, 1000}
SequenceSleepSteps == {500}   \* one iteration every 500 ms
TempoSleepSteps == {1000}     \* one iteration every second
AccentSleepSteps == {200}     \* one iteration every 200 ms
DegenerateSleepSteps == {30000}  \* one iteration every 30 s

(***************************************************************************)
(* Types                                                                   *)
(***************************************************************************)
Standard == "Standard"
Random == "Random"
Practice == "Practice"
Polyrhythm == "Polyrhythm"
Ritardando == "Ritardando"
Subdivision == "Subdivision"
Countdown == "Countdown"

MetronomeMode ==
    {Standard, Random, Practice, Polyrhythm, Ritardando, Subdivision, Countdown}

\* u64::MAX milliseconds, the saturated `as u64` of an infinite quotient, held
\* as the largest number the checker has: no run lasts that long
U64Max == 2147483647

\* u32::MAX, held as the largest number the checker has
U32Max == 2147483647

Min(a, b) == IF a <= b THEN a ELSE b
Max(a, b) == IF a >= b THEN a ELSE b

\* u32::saturating_sub(1)
saturating_sub(x) == IF x = 0 THEN 0 ELSE x - 1

\* rng.gen_range(lo..=hi): any value of the closed range; the exploration
\* draws the two end points
gen_range(lo, hi) == {lo, hi}

VARIABLES
    binary,             \* the binary that runs
    \* ---- gui-metronome2 ----
    \* SharedMetronomeState: atomics
    bpm, is_running, volume, sound_type, tick_count, mode,
    \* SharedMetronomeState: RwLock-protected records
    random_state, practice_state, polyrhythm_state, ritardando_state,
    subdivision_state, countdown_state, last_beat,
    \* locals of metronome_thread
    last_tick, subdivision_tick, countdown_start_time,
    local_random_state, local_practice_state, local_polyrhythm_state,
    local_ritardando_state, local_subdivision_state, local_countdown_state,
    \* channels and the audio sink
    command_receiver,   \* commands sent and not yet received, oldest first
    event_sender,       \* events sent by the latest scheduler step
    sink,               \* sources appended to the sink by the latest step
    \* control
    pc,                 \* position of metronome_thread in its loop
    now,                \* the monotonic clock (ms)
    ui_guard,           \* the RwLock guard held by the presentation thread
    sent,               \* number of commands sent so far
    \* observation of the run (not program state)
    fresh,              \* no command was applied since the latest Start
    stops,              \* Stop commands applied in a row most recently
    finished,           \* CountdownFinished events since the latest Start
    pending,            \* commands still to apply of those that were
                        \* pending when the current iteration started
    prev_beat,          \* instant of the latest Beat, -1 before the first
    tick_algorithm,     \* the mode whose algorithm computed the Beat of
                        \* the latest scheduler step, "none" without one
    \* ---- gui-metronome ----
    atomic_state,       \* AtomicState
    loop_pc,            \* position of metronome_loop
    remaining,          \* `remaining`, local of metronome_loop
    key_pc,             \* position of the key handler in progress
    was_running,        \* local of toggle_metronome
    was_random,         \* local of toggle_random_mode
    new_count,          \* local of adjust_random_count
    \* observation of the run (not program state)
    keys,               \* number of keys pressed so far
    loop_ticks,         \* number of ticks of metronome_loop so far
    run_ticks,          \* ticks since a key handler reloaded
                        \* remaining_ticks with no key pressed since,
                        \* -1 when there is no such reload
    drawn,              \* tempo drawn by the latest tick, 0 without one
    late_ticks,         \* ticks counted since is_running was last stored
                        \* false, 0 while it is true
    \* ---- metronome (src/main.rs) ----
    state,              \* the MetronomeState inside the Mutex
    state_guard,        \* the thread whose guard holds the mutex, or "none"
    mutex_pc,           \* position of metronome_loop
    main_pc,            \* position of main's event loop
    key,                \* the key read by main, "none" without one
    \* observation of the run (not program state)
    mutex_keys,         \* number of keys read so far
    mutex_ticks         \* number of PlayTick sent so far

atomics == <<bpm, is_running, volume, sound_type, tick_count, mode>>
shared_modes == <<random_state, practice_state, polyrhythm_state,
                  ritardando_state, subdivision_state, countdown_state>>
locals == <<local_random_state, local_practice_state, local_polyrhythm_state,
            local_ritardando_state, local_subdivision_state,
            local_countdown_state>>
timers == <<last_tick, subdivision_tick, countdown_start_time>>
outputs == <<event_sender, sink, tick_algorithm>>
history == <<fresh, stops, finished, pending, prev_beat>>

gui == <<atomics, shared_modes, last_beat, locals, timers, command_receiver,
         outputs, pc, now, ui_guard, sent, history>>
terminal == <<atomic_state, loop_pc, remaining, key_pc, was_running,
              was_random, new_count, keys, loop_ticks, run_ticks, drawn,
              late_ticks>>
cli == <<state, state_guard, mutex_pc, main_pc, key, mutex_keys, mutex_ticks>>

vars == <<binary, gui, terminal, cli>>

Gui == "gui-metronome2"
Terminal == "gui-metronome"
Cli == "metronome"

(***************************************************************************)
(* Construction: MetronomeApp::default and the head of metronome_thread    *)
(***************************************************************************)
InitRandomState == [count |-> 100, remaining_ticks |-> 100]
InitPracticeState ==
    [sections |-> <<<<60, 32>>, <<120, 32>>, <<180, 32>>>>,
     current_section |-> 0, section_remaining |-> 0]
InitPolyrhythmState ==
    [primary |-> 4, secondary |-> 3,
     accent_primary |-> TRUE, accent_secondary |-> TRUE]
InitRitardandoState ==
    [start_bpm |-> 120, target_bpm |-> 180, duration |-> 64, remaining |-> 0]
InitSubdivisionState ==
    [subdivisions |-> 1, accent_pattern |-> <<TRUE, FALSE, FALSE, FALSE>>]
InitCountdownState ==
    [duration_seconds |-> 60, remaining_seconds |-> 60000,
     enable_random_bpm |-> FALSE, original_bpm |-> 120,
     next_bpm_change |-> 5000]

\* AtomicState::new
\* MetronomeState::new
MetronomeState_new ==
    [bpm |-> 120, is_running |-> FALSE, random_mode |-> FALSE,
     random_count |-> 100, remaining_ticks |-> 0]

InitAtomicState ==
    [bpm |-> 120, is_running |-> FALSE, random_mode |-> FALSE,
     random_count |-> 100, remaining_ticks |-> 0, tick_count |-> 0]

Init ==
    /\ binary \in {Gui, Terminal, Cli}
    /\ atomic_state = InitAtomicState
    /\ loop_pc = "wait"
    /\ remaining = 0
    /\ key_pc = "idle"
    /\ was_running = FALSE
    /\ was_random = FALSE
    /\ new_count = 0
    /\ keys = 0
    /\ loop_ticks = 0
    /\ run_ticks = -1
    /\ drawn = 0
    /\ late_ticks = 0
    /\ state = MetronomeState_new
    /\ state_guard = "none"
    /\ mutex_pc = "lock"
    /\ main_pc = "display"
    /\ key = "none"
    /\ mutex_keys = 0
    /\ mutex_ticks = 0
    /\ bpm = 120
    /\ is_running = FALSE
    /\ volume = 80
    /\ sound_type = 0
    /\ tick_count = 0
    /\ mode = Standard
    /\ random_state = InitRandomState
    /\ practice_state = InitPracticeState
    /\ polyrhythm_state = InitPolyrhythmState
    /\ ritardando_state = InitRitardandoState
    /\ subdivision_state = InitSubdivisionState
    /\ countdown_state = InitCountdownState
    /\ last_beat = 0
    /\ last_tick = 0
    /\ subdivision_tick = 0
    /\ countdown_start_time = 0
    /\ local_random_state = InitRandomState
    /\ local_practice_state = InitPracticeState
    /\ local_polyrhythm_state = InitPolyrhythmState
    /\ local_ritardando_state = InitRitardandoState
    /\ local_subdivision_state = InitSubdivisionState
    /\ local_countdown_state = InitCountdownState
    /\ command_receiver = <<>>
    /\ event_sender = <<>>
    /\ sink = <<>>
    /\ pc = "recv"
    /\ now = 0
    /\ ui_guard = "none"
    /\ sent = 0
    /\ fresh = FALSE
    /\ stops = 0
    /\ finished = 0
    /\ pending = 0
    /\ prev_beat = -1
    /\ tick_algorithm = "none"

(***************************************************************************)
(* Commands and events                                                     *)
(***************************************************************************)
Start == [type |-> "Start"]
Stop == [type |-> "Stop"]
Reset == [type |-> "Reset"]
ChangeBpm(b) == [type |-> "ChangeBpm", bpm |-> b]
ChangeVolume(v) == [type |-> "ChangeVolume", volume |-> v]
ChangeSoundType(s) == [type |-> "ChangeSoundType", sound_type |-> s]
ChangeMode(m) == [type |-> "ChangeMode", mode |-> m]
UpdateRandomSettings(c) == [type |-> "UpdateRandomSettings", count |-> c]
UpdatePracticeSettings(s) == [type |-> "UpdatePracticeSettings", sections |-> s]
UpdatePolyrhythmSettings(p, s, ap, as) ==
    [type |-> "UpdatePolyrhythmSettings", primary |-> p, secondary |-> s,
     accent_primary |-> ap, accent_secondary |-> as]
UpdateRitardandoSettings(s, t, d) ==
    [type |-> "UpdateRitardandoSettings", start_bpm |-> s, target_bpm |-> t,
     duration |-> d]
UpdateSubdivisionSettings(n, p) ==
    [type |-> "UpdateSubdivisionSettings", subdivisions |-> n, pattern |-> p]
UpdateCountdownSettings(d, r) ==
    [type |-> "UpdateCountdownSettings", duration_seconds |-> d,
     enable_random_bpm |-> r]

Beat(n, a) == [type |-> "Beat", tick_count |-> n, is_accent |-> a]
ModeChanged(m) == [type |-> "ModeChanged", mode |-> m]
BpmChanged(b) == [type |-> "BpmChanged", bpm |-> b]
CountdownFinished == [type |-> "CountdownFinished"]

(***************************************************************************)
(* The presentation thread                                                 *)
(***************************************************************************)
\* command_sender.send(c): the channel is unbounded, the send never blocks
Send(c, budget) ==
    /\ binary = Gui
    /\ sent < budget
    /\ command_receiver' = Append(command_receiver, c)
    /\ sent' = sent + 1
    /\ UNCHANGED <<atomics, shared_modes, last_beat, locals, timers, outputs,
                   pc, now, ui_guard, history, binary, terminal, cli>>

\* draw_*_controls / get_mode_info: try_read (try_write for the practice
\* record) on the record of the mode the frame displays; the scheduler
\* holds its locks within one step only, so the try succeeds
UiTryLock ==
    /\ binary = Gui
    /\ ui_guard = "none"
    /\ mode # Standard
    /\ ui_guard' = mode
    /\ UNCHANGED <<atomics, shared_modes, last_beat, locals, timers,
                   command_receiver, outputs, pc, now, sent, history,
                   binary, terminal, cli>>

\* (variant: the block keeps its guard until the scheduler has taken the
\* commands sent)
UiUnlockAfterDrain ==
    /\ ui_guard # "none"
    /\ command_receiver = <<>>
    /\ ui_guard' = "none"
    /\ UNCHANGED <<atomics, shared_modes, last_beat, locals, timers,
                   command_receiver, outputs, pc, now, sent, history,
                   binary, terminal, cli>>

\* the guard is dropped at the end of the block that took it
UiUnlock ==
    /\ ui_guard # "none"
    /\ ui_guard' = "none"
    /\ UNCHANGED <<atomics, shared_modes, last_beat, locals, timers,
                   command_receiver, outputs, pc, now, sent, history,
                   binary, terminal, cli>>

\* (variant: the elements added by a resize are accented)
resize_accented(v, new_len, value) ==
    [i \in 1..new_len |-> IF i <= Len(v) THEN v[i] ELSE TRUE]

\* Vec::resize(new_len, value)
resize(v, new_len, value) ==
    [i \in 1..new_len |-> IF i <= Len(v) THEN v[i] ELSE value]

\* what a frame can bring to the subdivision panel: no click, a click on
\* one of the four subdivision buttons, a click on an accent button
SubdivisionClicks ==
    {[on |-> "nothing", at |-> 0]}
      \cup {[on |-> "subdivision", at |-> value] : value \in 1..4}
      \cup {[on |-> "accent", at |-> i] : i \in 1..4}

\* draw_subdivision_controls, in a frame that displays Subdivision mode:
\* the panel works on a copy of the shared record, taken under try_read,
\* and sends UpdateSubdivisionSettings if anything changed
draw_subdivision_controls(budget) ==
    /\ mode = Subdivision
    /\ ui_guard = "none"
    /\ \E click \in SubdivisionClicks :
          LET subdivisions ==
                  IF click.on = "subdivision" THEN click.at
                  ELSE subdivision_state.subdivisions
              copied == subdivision_state.accent_pattern
              resized == Len(copied) # subdivisions
              sized == resize(copied, subdivisions, FALSE)
              pattern ==
                  IF ~resized THEN copied
                  ELSE IF subdivisions > 0 THEN [sized EXCEPT ![1] = TRUE]
                  ELSE sized
              toggled == click.on = "accent" /\ click.at <= Len(pattern)
              changed == click.on = "subdivision" \/ resized \/ toggled
          IN  /\ click.on = "accent" => toggled
              /\ changed
              /\ Send(UpdateSubdivisionSettings(
                          subdivisions,
                          IF toggled
                          THEN [pattern EXCEPT ![click.at] = ~pattern[click.at]]
                          ELSE pattern),
                      budget)

\* what a frame can bring to the practice panel: a click on the remove
\* button of a section, on the add button, or a move of the tempo or beats
\* slider of a section (to the upper end 300, to the lower end 4)
PracticeClicks ==
    {[on |-> "remove", at |-> i] : i \in 1..3}
      \cup {[on |-> "add", at |-> 0]}
      \cup {[on |-> "bpm", at |-> 1], [on |-> "beats", at |-> 1]}

\* Vec::remove(index)
remove(v, index) == SubSeq(v, 1, index - 1) \o SubSeq(v, index + 1, Len(v))

\* draw_practice_controls, under the guard that its try_write on the shared
\* practice record has taken: the sliders and buttons act on the shared
\* record itself, and UpdatePracticeSettings is sent with a copy of it
draw_practice_controls(budget) ==
    /\ ui_guard = Practice
    /\ sent < budget
    /\ \E click \in PracticeClicks :
          LET sections == practice_state.sections
              edited ==
                  CASE click.on = "remove" -> remove(sections, click.at)
                    [] click.on = "add" -> Append(sections, <<120, 32>>)
                    [] click.on = "bpm" ->
                          [sections EXCEPT ![click.at][1] = 300]
                    [] click.on = "beats" ->
                          [sections EXCEPT ![click.at][2] = 4]
          IN  /\ click.at <= Len(sections)
              /\ practice_state' = [practice_state EXCEPT !.sections = edited]
              /\ command_receiver' =
                    Append(command_receiver, UpdatePracticeSettings(edited))
    /\ sent' = sent + 1
    /\ UNCHANGED <<atomics, random_state, polyrhythm_state, ritardando_state,
                   subdivision_state, countdown_state, last_beat, locals,
                   timers, outputs, pc, now, ui_guard, history, binary,
                   terminal, cli>>

(***************************************************************************)
(* metronome_thread: the command loop                                      *)
(***************************************************************************)
\* state.X.write().unwrap() blocks while the presentation thread holds a
\* guard on X; state.X.try_write() gives up instead
CanWrite(lock) == ui_guard # lock
TryWrite(lock, shared, local) == IF ui_guard = lock THEN shared ELSE local

\* the record that the handler of a command of type t locks with write()
WrittenBy(t) ==
    CASE t = "UpdateRandomSettings" -> Random
      [] t = "UpdatePracticeSettings" -> Practice
      [] t = "UpdatePolyrhythmSettings" -> Polyrhythm
      [] t = "UpdateRitardandoSettings" -> Ritardando
      [] t = "UpdateSubdivisionSettings" -> Subdivision
      [] t = "UpdateCountdownSettings" -> Countdown
      [] OTHER -> "none"

\* metronome_thread waits in write() for the presentation thread to drop
\* its guard on the record
Blocked ==
    /\ binary = Gui
    /\ pc = "recv"
    /\ command_receiver # <<>>
    /\ WrittenBy(Head(command_receiver).type) # "none"
    /\ ~CanWrite(WrittenBy(Head(command_receiver).type))

\* (variant: the loop may go on to the timing decision with commands left)
DrainDoneEarly == TRUE

\* `while let Ok(command) = command_receiver.try_recv()` is left when the
\* channel is empty
DrainDone == command_receiver = <<>>

\* (variant: the channel is read only while the session runs)
ReceivedRunning(t) ==
    /\ binary = Gui
    /\ is_running
    /\ pc = "recv"
    /\ command_receiver # <<>>
    /\ Head(command_receiver).type = t

Received(t) ==
    /\ binary = Gui
    /\ pc = "recv"
    /\ command_receiver # <<>>
    /\ Head(command_receiver).type = t

\* the part of a handler step that is the same for every command
Consume(t) ==
    /\ command_receiver' = Tail(command_receiver)
    /\ pc' = "recv"
    /\ stops' = IF t = "Stop" THEN stops + 1 ELSE 0
    /\ finished' = IF t = "Start" THEN 0 ELSE finished
    /\ pending' = saturating_sub(pending)
    /\ sink' = <<>>
    /\ tick_algorithm' = "none"
    /\ UNCHANGED <<now, ui_guard, sent, last_beat, prev_beat, binary,
                   terminal, cli>>

\* (variant: Start leaves the Random counter where it was)
StartRandomStateKept(rs) == rs

\* Start: the reset of the active mode's record
StartRandomState(rs) == [rs EXCEPT !.remaining_ticks = rs.count]
StartPracticeState(ps) ==
    [ps EXCEPT !.current_section = 0, !.section_remaining = 0]
StartRitardandoState(rt) == [rt EXCEPT !.remaining = rt.duration]
StartCountdownState(cs, b) ==
    [cs EXCEPT !.remaining_seconds = cs.duration_seconds * 1000,
               !.original_bpm = b,
               !.next_bpm_change = 5000]
StartSubdivisionTick == 0

RecvStart ==
    /\ Received("Start")
    /\ Consume("Start")
    /\ is_running' = TRUE
    /\ tick_count' = 0
    /\ last_tick' = now
    /\ countdown_start_time' = now
    /\ subdivision_tick' = StartSubdivisionTick
    /\ local_random_state' =
          IF mode = Random THEN StartRandomState(local_random_state)
          ELSE local_random_state
    /\ local_practice_state' =
          IF mode = Practice THEN StartPracticeState(local_practice_state)
          ELSE local_practice_state
    /\ local_ritardando_state' =
          IF mode = Ritardando
          THEN StartRitardandoState(local_ritardando_state)
          ELSE local_ritardando_state
    /\ bpm' = IF mode = Ritardando THEN local_ritardando_state.start_bpm
              ELSE bpm
    /\ local_countdown_state' =
          IF mode = Countdown
          THEN StartCountdownState(local_countdown_state, bpm)
          ELSE local_countdown_state
    /\ event_sender' = <<>>
    /\ fresh' = TRUE
    /\ UNCHANGED <<volume, sound_type, mode, shared_modes,
                   local_polyrhythm_state, local_subdivision_state>>

\* (variant: Stop toggles the running flag, as a start/stop key would)
RecvStopToggle ==
    /\ Received("Stop")
    /\ Consume("Stop")
    /\ is_running' = ~is_running
    /\ event_sender' = <<>>
    /\ fresh' = FALSE
    /\ UNCHANGED <<bpm, volume, sound_type, tick_count, mode, shared_modes,
                   locals, timers>>

\* (variant: Stop also rewinds the beat counter)
RecvStopRewind ==
    /\ Received("Stop")
    /\ Consume("Stop")
    /\ is_running' = FALSE
    /\ tick_count' = 0
    /\ event_sender' = <<>>
    /\ fresh' = FALSE
    /\ UNCHANGED <<bpm, volume, sound_type, mode, shared_modes, locals,
                   timers>>

RecvStop ==
    /\ Received("Stop")
    /\ Consume("Stop")
    /\ is_running' = FALSE
    /\ event_sender' = <<>>
    /\ fresh' = FALSE
    /\ UNCHANGED <<bpm, volume, sound_type, tick_count, mode, shared_modes,
                   locals, timers>>

RecvChangeBpm ==
    /\ Received("ChangeBpm")
    /\ Consume("ChangeBpm")
    /\ bpm' = Head(command_receiver).bpm
    /\ event_sender' = <<>>
    /\ fresh' = FALSE
    /\ UNCHANGED <<is_running, volume, sound_type, tick_count, mode,
                   shared_modes, locals, timers>>

RecvChangeVolume ==
    /\ Received("ChangeVolume")
    /\ Consume("ChangeVolume")
    /\ volume' = Head(command_receiver).volume
    /\ event_sender' = <<>>
    /\ fresh' = FALSE
    /\ UNCHANGED <<bpm, is_running, sound_type, tick_count, mode,
                   shared_modes, locals, timers>>

RecvChangeSoundType ==
    /\ Received("ChangeSoundType")
    /\ Consume("ChangeSoundType")
    /\ sound_type' = Head(command_receiver).sound_type
    /\ event_sender' = <<>>
    /\ fresh' = FALSE
    /\ UNCHANGED <<bpm, is_running, volume, tick_count, mode,
                   shared_modes, locals, timers>>

\* (variant: a mode switch restarts the mode switched to, as Start does)
RecvChangeModeResetting ==
    /\ Received("ChangeMode")
    /\ Consume("ChangeMode")
    /\ mode' = Head(command_receiver).mode
    /\ event_sender' = <<ModeChanged(Head(command_receiver).mode)>>
    /\ local_random_state' =
          IF mode' = Random THEN StartRandomState(local_random_state)
          ELSE local_random_state
    /\ local_practice_state' =
          IF mode' = Practice THEN StartPracticeState(local_practice_state)
          ELSE local_practice_state
    /\ local_ritardando_state' =
          IF mode' = Ritardando
          THEN StartRitardandoState(local_ritardando_state)
          ELSE local_ritardando_state
    /\ fresh' = FALSE
    /\ UNCHANGED <<bpm, is_running, volume, sound_type, tick_count,
                   shared_modes, local_polyrhythm_state,
                   local_subdivision_state, local_countdown_state, timers>>

\* (variant: the switch restarts the clock of the countdown)
RecvChangeModeRestart ==
    /\ Received("ChangeMode")
    /\ Consume("ChangeMode")
    /\ mode' = Head(command_receiver).mode
    /\ countdown_start_time' = now
    /\ event_sender' = <<ModeChanged(Head(command_receiver).mode)>>
    /\ fresh' = FALSE
    /\ UNCHANGED <<bpm, is_running, volume, sound_type, tick_count,
                   shared_modes, locals, last_tick, subdivision_tick>>

\* ChangeMode(mode): state.set_mode(mode) and the ModeChanged event
RecvChangeMode ==
    /\ Received("ChangeMode")
    /\ Consume("ChangeMode")
    /\ mode' = Head(command_receiver).mode
    /\ event_sender' = <<ModeChanged(Head(command_receiver).mode)>>
    /\ fresh' = FALSE
    /\ UNCHANGED <<bpm, is_running, volume, sound_type, tick_count,
                   shared_modes, locals, timers>>

\* (variant: the update stores the interval and leaves the counter alone)
RecvUpdateRandomSettingsCountOnly ==
    /\ Received("UpdateRandomSettings")
    /\ CanWrite(Random)
    /\ Consume("UpdateRandomSettings")
    /\ local_random_state' =
          [local_random_state EXCEPT !.count = Head(command_receiver).count]
    /\ random_state' = local_random_state'
    /\ event_sender' = <<>>
    /\ fresh' = FALSE
    /\ UNCHANGED <<atomics, practice_state, polyrhythm_state,
                   ritardando_state, subdivision_state, countdown_state,
                   local_practice_state, local_polyrhythm_state,
                   local_ritardando_state, local_subdivision_state,
                   local_countdown_state, timers>>

RecvUpdateRandomSettings ==
    /\ Received("UpdateRandomSettings")
    /\ CanWrite(Random)
    /\ Consume("UpdateRandomSettings")
    /\ local_random_state' =
          [count |-> Head(command_receiver).count,
           remaining_ticks |-> Head(command_receiver).count]
    /\ random_state' = local_random_state'
    /\ event_sender' = <<>>
    /\ fresh' = FALSE
    /\ UNCHANGED <<atomics, practice_state, polyrhythm_state,
                   ritardando_state, subdivision_state, countdown_state,
                   local_practice_state, local_polyrhythm_state,
                   local_ritardando_state, local_subdivision_state,
                   local_countdown_state, timers>>

RecvUpdatePracticeSettings ==
    /\ Received("UpdatePracticeSettings")
    /\ CanWrite(Practice)
    /\ Consume("UpdatePracticeSettings")
    /\ local_practice_state' =
          [local_practice_state EXCEPT
             !.sections = Head(command_receiver).sections]
    /\ practice_state' = local_practice_state'
    /\ event_sender' = <<>>
    /\ fresh' = FALSE
    /\ UNCHANGED <<atomics, random_state, polyrhythm_state,
                   ritardando_state, subdivision_state, countdown_state,
                   local_random_state, local_polyrhythm_state,
                   local_ritardando_state, local_subdivision_state,
                   local_countdown_state, timers>>

RecvUpdatePolyrhythmSettings ==
    /\ Received("UpdatePolyrhythmSettings")
    /\ CanWrite(Polyrhythm)
    /\ Consume("UpdatePolyrhythmSettings")
    /\ local_polyrhythm_state' =
          [primary |-> Head(command_receiver).primary,
           secondary |-> Head(command_receiver).secondary,
           accent_primary |-> Head(command_receiver).accent_primary,
           accent_secondary |-> Head(command_receiver).accent_secondary]
    /\ polyrhythm_state' = local_polyrhythm_state'
    /\ event_sender' = <<>>
    /\ fresh' = FALSE
    /\ UNCHANGED <<atomics, random_state, practice_state,
                   ritardando_state, subdivision_state, countdown_state,
                   local_random_state, local_practice_state,
                   local_ritardando_state, local_subdivision_state,
                   local_countdown_state, timers>>

\* (variant: the update stores the ramp length as sent)
RecvUpdateRitardandoSettingsUnclamped ==
    /\ Received("UpdateRitardandoSettings")
    /\ CanWrite(Ritardando)
    /\ Consume("UpdateRitardandoSettings")
    /\ local_ritardando_state' =
          [local_ritardando_state EXCEPT
             !.start_bpm = Head(command_receiver).start_bpm,
             !.target_bpm = Head(command_receiver).target_bpm,
             !.duration = Head(command_receiver).duration]
    /\ ritardando_state' = local_ritardando_state'
    /\ event_sender' = <<>>
    /\ fresh' = FALSE
    /\ UNCHANGED <<atomics, random_state, practice_state,
                   polyrhythm_state, subdivision_state, countdown_state,
                   local_random_state, local_practice_state,
                   local_polyrhythm_state, local_subdivision_state,
                   local_countdown_state, timers>>

\* (variant: the update also stores the start tempo as the tempo)
RecvUpdateRitardandoSettingsTempo ==
    /\ Received("UpdateRitardandoSettings")
    /\ CanWrite(Ritardando)
    /\ Consume("UpdateRitardandoSettings")
    /\ local_ritardando_state' =
          [local_ritardando_state EXCEPT
             !.start_bpm = Head(command_receiver).start_bpm,
             !.target_bpm = Head(command_receiver).target_bpm,
             !.duration = Max(Head(command_receiver).duration, 1)]
    /\ ritardando_state' = local_ritardando_state'
    /\ bpm' = Head(command_receiver).start_bpm
    /\ event_sender' = <<>>
    /\ fresh' = FALSE
    /\ UNCHANGED <<is_running, volume, sound_type, tick_count, mode,
                   random_state, practice_state,
                   polyrhythm_state, subdivision_state, countdown_state,
                   local_random_state, local_practice_state,
                   local_polyrhythm_state, local_subdivision_state,
                   local_countdown_state, timers>>

RecvUpdateRitardandoSettings ==
    /\ Received("UpdateRitardandoSettings")
    /\ CanWrite(Ritardando)
    /\ Consume("UpdateRitardandoSettings")
    /\ local_ritardando_state' =
          [local_ritardando_state EXCEPT
             !.start_bpm = Head(command_receiver).start_bpm,
             !.target_bpm = Head(command_receiver).target_bpm,
             !.duration = Max(Head(command_receiver).duration, 1)]
    /\ ritardando_state' = local_ritardando_state'
    /\ event_sender' = <<>>
    /\ fresh' = FALSE
    /\ UNCHANGED <<atomics, random_state, practice_state,
                   polyrhythm_state, subdivision_state, countdown_state,
                   local_random_state, local_practice_state,
                   local_polyrhythm_state, local_subdivision_state,
                   local_countdown_state, timers>>

RecvUpdateSubdivisionSettings ==
    /\ Received("UpdateSubdivisionSettings")
    /\ CanWrite(Subdivision)
    /\ Consume("UpdateSubdivisionSettings")
    /\ local_subdivision_state' =
          [subdivisions |-> Head(command_receiver).subdivisions,
           accent_pattern |-> Head(command_receiver).pattern]
    /\ subdivision_state' = local_subdivision_state'
    /\ event_sender' = <<>>
    /\ fresh' = FALSE
    /\ UNCHANGED <<atomics, random_state, practice_state,
                   polyrhythm_state, ritardando_state, countdown_state,
                   local_random_state, local_practice_state,
                   local_polyrhythm_state, local_ritardando_state,
                   local_countdown_state, timers>>

RecvUpdateCountdownSettings ==
    /\ Received("UpdateCountdownSettings")
    /\ CanWrite(Countdown)
    /\ Consume("UpdateCountdownSettings")
    /\ local_countdown_state' =
          [local_countdown_state EXCEPT
             !.duration_seconds = Head(command_receiver).duration_seconds,
             !.enable_random_bpm = Head(command_receiver).enable_random_bpm]
    /\ countdown_state' = local_countdown_state'
    /\ event_sender' = <<>>
    /\ fresh' = FALSE
    /\ UNCHANGED <<atomics, random_state, practice_state,
                   polyrhythm_state, ritardando_state, subdivision_state,
                   local_random_state, local_practice_state,
                   local_polyrhythm_state, local_ritardando_state,
                   local_subdivision_state, timers>>

RecvReset ==
    /\ Received("Reset")
    /\ Consume("Reset")
    /\ tick_count' = 0
    /\ subdivision_tick' = 0
    /\ event_sender' = <<>>
    /\ fresh' = FALSE
    /\ UNCHANGED <<bpm, is_running, volume, sound_type, mode, shared_modes,
                   locals, last_tick, countdown_start_time>>

\* try_recv() returns Err: the loop goes on to the timing decision
DrainEmpty ==
    /\ binary = Gui
    /\ pc = "recv"
    /\ DrainDone
    /\ pc' = "decide"
    /\ UNCHANGED <<atomics, shared_modes, last_beat, locals, timers,
                   command_receiver, outputs, now, ui_guard, sent, history,
                   binary, terminal, cli>>

(***************************************************************************)
(* metronome_thread: the timing decision                                   *)
(***************************************************************************)
\* u32 counters (tick_count, subdivision_tick) wrap at 2^32, far beyond the
\* number of ticks of a bounded run: their increments are written unwrapped

\* the beat interval in ms; `as u64` of the f32 quotient saturates, so a
\* quotient by 0.0 gives u64::MAX
BeatInterval(m, b, subdivisions) ==
    IF m = Subdivision
    THEN LET multiplier == IF subdivisions \in 1..4 THEN subdivisions ELSE 1
         IN  IF b * multiplier = 0 THEN U64Max
             ELSE 60000 \div (b * multiplier)
    ELSE 60000 \div Max(b, 1)

\* last_tick.elapsed() >= beat_interval
ShouldTick ==
    now - last_tick >=
        BeatInterval(mode, bpm, local_subdivision_state.subdivisions)

\* countdown_start_time.elapsed(), and the remaining time computed from it
CountdownElapsed == now - countdown_start_time
CountdownRemaining(cs, elapsed) ==
    Max(cs.duration_seconds * 1000 - elapsed, 0)

\* (variant: the end test is `< 0.0`, which the clamped value never meets)
CountdownOverStrict ==
    /\ mode = Countdown
    /\ CountdownRemaining(local_countdown_state, CountdownElapsed) < 0

CountdownOver ==
    /\ mode = Countdown
    /\ CountdownRemaining(local_countdown_state, CountdownElapsed) <= 0

\* what the Countdown block does in an iteration that does not finish the
\* countdown: the outcomes [cs, bpm, events] it can have
CountdownUpdate ==
    IF mode # Countdown
    THEN {[cs |-> local_countdown_state, bpm |-> bpm, events |-> <<>>]}
    ELSE
      LET elapsed == CountdownElapsed
          left == CountdownRemaining(local_countdown_state, elapsed)
          cs1 == [local_countdown_state EXCEPT !.remaining_seconds = left]
          next == cs1.next_bpm_change
                    - (elapsed - (cs1.duration_seconds * 1000 - left))
          cs2 == [cs1 EXCEPT !.next_bpm_change = next]
      IN  IF ~cs1.enable_random_bpm
          THEN {[cs |-> cs1, bpm |-> bpm, events |-> <<>>]}
          ELSE IF next > 0
          THEN {[cs |-> cs2, bpm |-> bpm, events |-> <<>>]}
          ELSE {[cs |-> [cs2 EXCEPT !.next_bpm_change = n],
                 bpm |-> b, events |-> <<BpmChanged(b)>>] :
                    b \in gen_range(80, 180), n \in gen_range(3000, 8000)}

\* the gain of a tick, in thousandths
TickGain(v, is_accent) == IF is_accent THEN Min(v * 15, 1000) ELSE v * 10

\* the sound appended to the sink: the cache holds the sounds 0..8
Played(st, gain) ==
    IF st \in 0..8 THEN <<[sound |-> st, gain |-> gain]>> ELSE <<>>

\* `sound_type = (sound_type + 1) % 8` on a u32: the sum overflows when
\* sound_type is u32::MAX.  A build with overflow checks (the debug profile)
\* panics there; a build without them wraps the sum to 0
AddOverflows(st) == st = U32Max
AlternateSound(st) == IF AddOverflows(st) THEN 0 ELSE (st + 1) % 8

\* (variant: the timer advances by one interval, so late beats are made up)
TickRestartCatchUp(t) ==
    t + BeatInterval(mode, bpm, local_subdivision_state.subdivisions)

\* the instant a fired tick leaves in last_tick
TickRestart(t) == now

\* `if should_tick { ... }` and `last_tick = Instant::now()`
FireTick(algorithm, is_accent, use_alternate_sound, events) ==
    /\ tick_count' = tick_count + 1
    /\ last_beat' = now
    /\ prev_beat' = now
    /\ event_sender' = Append(events, Beat(tick_count + 1, is_accent))
    /\ sink' = Played(IF use_alternate_sound THEN AlternateSound(sound_type)
                      ELSE sound_type,
                      TickGain(volume, is_accent))
    /\ last_tick' = TickRestart(last_tick)
    /\ tick_algorithm' = algorithm
    /\ pc' = "sleep"
    /\ UNCHANGED <<is_running, volume, sound_type, mode, countdown_start_time,
                   command_receiver, now, ui_guard, sent, fresh, stops,
                   finished, pending, binary, terminal, cli>>

\* the tick panics at the overflowing sum: the beat was counted and its
\* Beat event sent, nothing is played, and metronome_thread unwinds; nothing
\* catches the panic, the thread is gone
PanicInTick(algorithm, is_accent) ==
    /\ tick_count' = tick_count + 1
    /\ last_beat' = now
    /\ prev_beat' = now
    /\ event_sender' = <<Beat(tick_count + 1, is_accent)>>
    /\ sink' = <<>>
    /\ tick_algorithm' = algorithm
    /\ pc' = "panicked"
    /\ UNCHANGED <<is_running, volume, sound_type, mode, last_tick,
                   countdown_start_time, command_receiver, now, ui_guard,
                   sent, fresh, stops, finished, pending, binary, terminal, cli>>

\* not running: the else branch of the loop body
Idle ==
    /\ pc = "decide"
    /\ ~is_running
    /\ last_tick' = now
    /\ subdivision_tick' = 0
    /\ event_sender' = <<>>
    /\ sink' = <<>>
    /\ tick_algorithm' = "none"
    /\ pc' = "sleep"
    /\ UNCHANGED <<atomics, shared_modes, last_beat, locals,
                   countdown_start_time, command_receiver, now, ui_guard,
                   sent, history, binary, terminal, cli>>

\* the countdown has run out: stop, celebrate, `continue`
CountdownFinish ==
    /\ pc = "decide"
    /\ is_running
    /\ CountdownOver
    /\ local_countdown_state' =
          [local_countdown_state EXCEPT !.remaining_seconds = 0]
    /\ is_running' = FALSE
    /\ sink' = <<[sound |-> 8, gain |-> volume * 15]>>
    /\ event_sender' = <<CountdownFinished>>
    /\ tick_algorithm' = "none"
    /\ pc' = "recv"
    /\ pending' = Len(command_receiver)
    /\ finished' = finished + 1
    /\ UNCHANGED <<bpm, volume, sound_type, tick_count, mode, shared_modes,
                   last_beat, local_random_state, local_practice_state,
                   local_polyrhythm_state, local_ritardando_state,
                   local_subdivision_state, timers, command_receiver, now,
                   ui_guard, sent, fresh, stops, prev_beat, binary,
                   terminal, cli>>

\* running, and the beat interval has not elapsed
NoTick ==
    /\ pc = "decide"
    /\ is_running
    /\ ~CountdownOver
    /\ ~ShouldTick
    /\ \E o \in CountdownUpdate :
          /\ local_countdown_state' = o.cs
          /\ bpm' = o.bpm
          /\ event_sender' = o.events
          /\ countdown_state' =
                IF mode = Countdown
                THEN TryWrite(Countdown, countdown_state, o.cs)
                ELSE countdown_state
    /\ sink' = <<>>
    /\ tick_algorithm' = "none"
    /\ pc' = "sleep"
    /\ UNCHANGED <<is_running, volume, sound_type, tick_count, mode,
                   random_state, practice_state, polyrhythm_state,
                   ritardando_state, subdivision_state, last_beat,
                   local_random_state, local_practice_state,
                   local_polyrhythm_state, local_ritardando_state,
                   local_subdivision_state, timers, command_receiver, now,
                   ui_guard, sent, history, binary, terminal, cli>>

Ticking(m) ==
    /\ pc = "decide"
    /\ is_running
    /\ ~CountdownOver
    /\ ShouldTick
    /\ mode = m

TickStandard ==
    /\ Ticking(Standard)
    /\ FireTick(Standard, FALSE, FALSE, <<>>)
    /\ UNCHANGED <<bpm, shared_modes, locals, subdivision_tick>>

\* accent every 10 seconds
CountdownAccent(cs) ==
    (cs.duration_seconds * 1000 - cs.remaining_seconds) % 10000 < 500

TickCountdown ==
    /\ Ticking(Countdown)
    /\ \E o \in CountdownUpdate :
          /\ local_countdown_state' = o.cs
          /\ bpm' = o.bpm
          /\ countdown_state' = TryWrite(Countdown, countdown_state, o.cs)
          /\ FireTick(Countdown, CountdownAccent(o.cs), FALSE, o.events)
    /\ UNCHANGED <<random_state, practice_state, polyrhythm_state,
                   ritardando_state, subdivision_state, local_random_state,
                   local_practice_state, local_polyrhythm_state,
                   local_ritardando_state, local_subdivision_state,
                   subdivision_tick>>

\* the Random arm: the counter after the tick, and whether a tempo is drawn
RandomReload(rs) ==
    IF rs.remaining_ticks = 0 THEN [rs EXCEPT !.remaining_ticks = rs.count]
    ELSE rs
\* (variant: the counter is not reloaded once it has reached 0)
RandomTickNoReload(rs) ==
    [rs EXCEPT !.remaining_ticks = saturating_sub(rs.remaining_ticks)]
RandomTick(rs) ==
    [RandomReload(rs) EXCEPT
       !.remaining_ticks = saturating_sub(RandomReload(rs).remaining_ticks)]
RandomDraws(rs) == rs.remaining_ticks = 0
RandomBpm == gen_range(60, 200)

TickRandom ==
    /\ Ticking(Random)
    /\ local_random_state' = RandomTick(local_random_state)
    /\ IF RandomDraws(local_random_state')
       THEN \E new_bpm \in RandomBpm :
              /\ bpm' = new_bpm
              /\ FireTick(Random, FALSE, FALSE, <<BpmChanged(new_bpm)>>)
       ELSE /\ bpm' = bpm
            /\ FireTick(Random, FALSE, FALSE, <<>>)
    /\ random_state' = TryWrite(Random, random_state, local_random_state')
    /\ UNCHANGED <<practice_state, polyrhythm_state, ritardando_state,
                   subdivision_state, countdown_state, local_practice_state,
                   local_polyrhythm_state, local_ritardando_state,
                   local_subdivision_state, local_countdown_state,
                   subdivision_tick>>

\* the Practice arm
PracticeRolls(ps) ==
    /\ ps.section_remaining = 0
    /\ ps.current_section < Len(ps.sections)
\* (variant: the index of the next section is not wrapped)
PracticeLoadNoWrap(ps) ==
    IF PracticeRolls(ps)
    THEN [ps EXCEPT
            !.section_remaining = ps.sections[ps.current_section + 1][2],
            !.current_section = ps.current_section + 1]
    ELSE ps
PracticeLoad(ps) ==
    IF PracticeRolls(ps)
    THEN [ps EXCEPT
            !.section_remaining = ps.sections[ps.current_section + 1][2],
            !.current_section = (ps.current_section + 1) % Len(ps.sections)]
    ELSE ps
\* (variant: the tick that loads a section does not count it down)
PracticeTickLoadOnly(ps) ==
    IF PracticeRolls(ps) THEN PracticeLoad(ps)
    ELSE [ps EXCEPT !.section_remaining = saturating_sub(ps.section_remaining)]
PracticeTick(ps) ==
    [PracticeLoad(ps) EXCEPT
       !.section_remaining = saturating_sub(PracticeLoad(ps).section_remaining)]

TickPractice ==
    /\ Ticking(Practice)
    /\ local_practice_state' = PracticeTick(local_practice_state)
    /\ IF PracticeRolls(local_practice_state)
       THEN LET section_bpm ==
                  local_practice_state.sections[
                      local_practice_state.current_section + 1][1]
            IN  /\ bpm' = section_bpm
                /\ FireTick(Practice, FALSE, FALSE,
                            <<BpmChanged(section_bpm)>>)
       ELSE /\ bpm' = bpm
            /\ FireTick(Practice, FALSE, FALSE, <<>>)
    /\ practice_state' =
          TryWrite(Practice, practice_state, local_practice_state')
    /\ UNCHANGED <<random_state, polyrhythm_state, ritardando_state,
                   subdivision_state, countdown_state, local_random_state,
                   local_polyrhythm_state, local_ritardando_state,
                   local_subdivision_state, local_countdown_state,
                   subdivision_tick>>

\* the Polyrhythm arm
\* (variant: the hit is computed from the beat count after the increment)
PrimaryHitAfter(ps, n) == ps.primary > 0 /\ (n + 1) % ps.primary = 0
PrimaryHit(ps, n) == ps.primary > 0 /\ n % ps.primary = 0
SecondaryHit(ps, n) == ps.secondary > 0 /\ n % ps.secondary = 0

TickPolyrhythm ==
    /\ Ticking(Polyrhythm)
    /\ LET is_accent ==
              PrimaryHit(local_polyrhythm_state, tick_count)
                  /\ local_polyrhythm_state.accent_primary
           use_alternate_sound ==
              SecondaryHit(local_polyrhythm_state, tick_count)
                  /\ local_polyrhythm_state.accent_secondary
       IN  IF use_alternate_sound /\ AddOverflows(sound_type)
           THEN \/ PanicInTick(Polyrhythm, is_accent)
                \/ FireTick(Polyrhythm, is_accent, TRUE, <<>>)
           ELSE FireTick(Polyrhythm, is_accent, use_alternate_sound, <<>>)
    /\ UNCHANGED <<bpm, shared_modes, locals, subdivision_tick>>

\* the Ritardando arm: `as u32` truncates towards zero and saturates
RitardandoReload(rt) ==
    IF rt.remaining = 0 THEN [rt EXCEPT !.remaining = rt.duration] ELSE rt
\* (variant: the interpolation runs from the target back to the start)
RitardandoBpmReversed(rt) ==
    IF rt.duration > 0
    THEN LET numer == rt.target_bpm * rt.duration
                        + (rt.start_bpm - rt.target_bpm)
                            * (rt.duration - rt.remaining)
             current_bpm == IF numer <= 0 THEN 0 ELSE numer \div rt.duration
         IN  Max(current_bpm, 1)
    ELSE rt.target_bpm
RitardandoBpm(rt) ==
    IF rt.duration > 0
    THEN LET numer == rt.start_bpm * rt.duration
                        - (rt.start_bpm - rt.target_bpm)
                            * (rt.duration - rt.remaining)
             current_bpm == IF numer <= 0 THEN 0 ELSE numer \div rt.duration
         IN  Max(current_bpm, 1)
    ELSE rt.target_bpm
RitardandoTick(rt) ==
    [RitardandoReload(rt) EXCEPT
       !.remaining = saturating_sub(RitardandoReload(rt).remaining)]

TickRitardando ==
    /\ Ticking(Ritardando)
    /\ bpm' = RitardandoBpm(RitardandoReload(local_ritardando_state))
    /\ local_ritardando_state' = RitardandoTick(local_ritardando_state)
    /\ ritardando_state' =
          TryWrite(Ritardando, ritardando_state, local_ritardando_state')
    /\ FireTick(Ritardando, FALSE, FALSE, <<>>)
    /\ UNCHANGED <<random_state, practice_state, polyrhythm_state,
                   subdivision_state, countdown_state, local_random_state,
                   local_practice_state, local_polyrhythm_state,
                   local_subdivision_state, local_countdown_state,
                   subdivision_tick>>

\* the Subdivision arm
\* (variant: a beat without a pattern is accented)
SubdivisionAccentDefault(ss, t) ==
    IF ss.accent_pattern # <<>>
    THEN ss.accent_pattern[(t % Len(ss.accent_pattern)) + 1]
    ELSE TRUE
SubdivisionAccent(ss, t) ==
    IF ss.accent_pattern # <<>>
    THEN ss.accent_pattern[(t % Len(ss.accent_pattern)) + 1]
    ELSE FALSE

TickSubdivision ==
    /\ Ticking(Subdivision)
    /\ FireTick(Subdivision,
                SubdivisionAccent(local_subdivision_state, subdivision_tick),
                FALSE, <<>>)
    /\ subdivision_tick' = subdivision_tick + 1
    /\ UNCHANGED <<bpm, shared_modes, locals>>

\* thread::sleep(Duration::from_millis(1)) and the return to the loop head,
\* in a run observed up to the instant `horizon`
SleepWithin(steps, horizon) ==
    /\ pc = "sleep"
    /\ \E d \in steps :
          /\ now + d <= horizon
          /\ now' = now + d
    /\ pc' = "recv"
    /\ pending' = Len(command_receiver)
    /\ UNCHANGED <<atomics, shared_modes, last_beat, locals, timers,
                   command_receiver, outputs, ui_guard, sent, fresh,
                   stops, finished, prev_beat, binary, terminal, cli>>

Sleep(steps) == SleepWithin(steps, MaxTime)

Scheduler ==
    \/ RecvStart \/ RecvStop \/ RecvChangeBpm \/ RecvChangeVolume
    \/ RecvChangeSoundType \/ RecvChangeMode \/ RecvUpdateRandomSettings
    \/ RecvUpdatePracticeSettings \/ RecvUpdatePolyrhythmSettings
    \/ RecvUpdateRitardandoSettings \/ RecvUpdateSubdivisionSettings
    \/ RecvUpdateCountdownSettings \/ RecvReset \/ DrainEmpty
    \/ Idle \/ CountdownFinish \/ NoTick
    \/ TickStandard \/ TickCountdown \/ TickRandom \/ TickPractice
    \/ TickPolyrhythm \/ TickRitardando \/ TickSubdivision
    \/ Sleep(SleepSteps)

(***************************************************************************)
(* gui-metronome: the beat loop and the key handlers                       *)
(*                                                                         *)
(* The two threads share AtomicState and nothing orders their accesses:    *)
(* the loop is cut after its load of is_running and at the accesses to     *)
(* remaining_ticks, a key handler after each of its statements.  When the  *)
(* beat interval has elapsed is left open: a running loop may tick at any  *)
(* step.                                                                   *)
(***************************************************************************)
\* a loop that goes on to tick whatever is_running holds
LoopCheckUnguarded ==
    /\ binary = Terminal
    /\ loop_pc = "wait"
    /\ loop_ticks < MaxLoopTicks
    /\ loop_pc' = "tick"
    /\ UNCHANGED <<atomic_state, remaining, key_pc, was_running, was_random,
                   new_count, keys, loop_ticks, run_ticks, drawn,
                   late_ticks, binary, gui, cli>>

\* `if !state.is_running.load(..) { sleep; continue }`, the load of bpm and
\* should_tick: the iteration goes on to tick when it found is_running true
\* and the interval elapsed, and loops without a change otherwise
LoopCheck ==
    /\ binary = Terminal
    /\ loop_pc = "wait"
    /\ atomic_state.is_running
    /\ loop_ticks < MaxLoopTicks
    /\ loop_pc' = "tick"
    /\ UNCHANGED <<atomic_state, remaining, key_pc, was_running, was_random,
                   new_count, keys, loop_ticks, run_ticks, drawn,
                   late_ticks, binary, gui, cli>>

\* `if should_tick`: update_tick, the tick sound, PlayTick
LoopTick ==
    /\ loop_pc = "tick"
    /\ atomic_state' =
          [atomic_state EXCEPT !.tick_count = atomic_state.tick_count + 1]
    /\ loop_ticks' = loop_ticks + 1
    /\ late_ticks' = IF atomic_state.is_running THEN 0 ELSE late_ticks + 1
    /\ drawn' = 0
    /\ loop_pc' = "mode"
    /\ UNCHANGED <<remaining, key_pc, was_running, was_random, new_count,
                   keys, run_ticks, binary, gui, cli>>

\* `if state.random_mode.load(..)`
LoopMode ==
    /\ loop_pc = "mode"
    /\ loop_pc' = IF atomic_state.random_mode THEN "load" ELSE "wait"
    /\ UNCHANGED <<atomic_state, remaining, key_pc, was_running, was_random,
                   new_count, keys, loop_ticks, run_ticks, drawn,
                   late_ticks, binary, gui, cli>>

\* `let mut remaining = state.remaining_ticks.load(..)`
LoopLoad ==
    /\ loop_pc = "load"
    /\ remaining' = atomic_state.remaining_ticks
    /\ loop_pc' = IF remaining' = 0 THEN "reload" ELSE "store"
    /\ UNCHANGED <<atomic_state, key_pc, was_running, was_random, new_count,
                   keys, loop_ticks, run_ticks, drawn, late_ticks, binary, gui, cli>>

\* `remaining = state.random_count.load(..)`
LoopReload ==
    /\ loop_pc = "reload"
    /\ remaining' = atomic_state.random_count
    /\ loop_pc' = "store"
    /\ UNCHANGED <<atomic_state, key_pc, was_running, was_random, new_count,
                   keys, loop_ticks, run_ticks, drawn, late_ticks, binary, gui, cli>>

\* `remaining -= 1; state.remaining_ticks.store(remaining, ..)`: the count
\* loaded is at least 1, random_count being kept within 10..1000
LoopStore ==
    /\ loop_pc = "store"
    /\ remaining' = remaining - 1
    /\ atomic_state' = [atomic_state EXCEPT !.remaining_ticks = remaining']
    /\ loop_pc' = IF remaining' = 0 THEN "draw" ELSE "wait"
    /\ run_ticks' = IF run_ticks >= 0 THEN run_ticks + 1 ELSE run_ticks
    /\ UNCHANGED <<key_pc, was_running, was_random, new_count, keys,
                   loop_ticks, drawn, late_ticks, binary, gui, cli>>

\* `let new_bpm = rng.gen_range(60..=200); state.bpm.store(new_bpm, ..)`
LoopDraw ==
    /\ loop_pc = "draw"
    /\ \E new_bpm \in gen_range(60, 200) :
          /\ atomic_state' = [atomic_state EXCEPT !.bpm = new_bpm]
          /\ drawn' = new_bpm
    /\ loop_pc' = "reset"
    /\ UNCHANGED <<remaining, key_pc, was_running, was_random, new_count,
                   keys, loop_ticks, run_ticks, late_ticks, binary, gui, cli>>

\* `state.remaining_ticks.store(state.random_count.load(..), ..)`
LoopReset ==
    /\ loop_pc = "reset"
    /\ atomic_state' =
          [atomic_state EXCEPT !.remaining_ticks = atomic_state.random_count]
    /\ loop_pc' = "wait"
    /\ UNCHANGED <<remaining, key_pc, was_running, was_random, new_count,
                   keys, loop_ticks, run_ticks, drawn, late_ticks, binary, gui, cli>>

metronome_loop ==
    \/ LoopCheck \/ LoopTick \/ LoopMode \/ LoopLoad \/ LoopReload \/ LoopStore
    \/ LoopDraw \/ LoopReset

\* a key is pressed while no handler runs; the keys of a run are pressed
\* before the loop has ticked more than MaxKeyTicks times
KeyPressed ==
    /\ binary = Terminal
    /\ key_pc = "idle"
    /\ keys < MaxKeys
    /\ loop_ticks <= MaxKeyTicks
    /\ keys' = keys + 1
    /\ run_ticks' = -1

\* a key handler stores random_count into remaining_ticks: a run of the
\* random countdown starts there, unless the loop is in the middle of a tick
Reloaded == IF loop_pc = "wait" THEN 0 ELSE -1

\* toggle_metronome: `state.is_running.store(!was_running, ..)`
toggle_metronome ==
    /\ KeyPressed
    /\ was_running' = atomic_state.is_running
    /\ atomic_state' =
          [atomic_state EXCEPT !.is_running = ~atomic_state.is_running]
    /\ key_pc' = "toggle_metronome_reload"
    /\ late_ticks' = 0
    /\ UNCHANGED <<loop_pc, remaining, was_random, new_count, loop_ticks,
                   drawn, binary, gui, cli>>

\* toggle_metronome: the reload of a countdown that has run out
toggle_metronome_reload ==
    /\ key_pc = "toggle_metronome_reload"
    /\ IF /\ ~was_running
          /\ atomic_state.random_mode
          /\ atomic_state.remaining_ticks = 0
       THEN /\ atomic_state' =
                  [atomic_state EXCEPT
                     !.remaining_ticks = atomic_state.random_count]
            /\ run_ticks' = Reloaded
       ELSE UNCHANGED <<atomic_state, run_ticks>>
    /\ key_pc' = "toggle_metronome_count"
    /\ UNCHANGED <<loop_pc, remaining, was_running, was_random, new_count,
                   keys, loop_ticks, drawn, late_ticks, binary, gui, cli>>

\* toggle_metronome: `if !was_running { state.tick_count.store(0, ..) }`
toggle_metronome_count ==
    /\ key_pc = "toggle_metronome_count"
    /\ atomic_state' =
          IF ~was_running THEN [atomic_state EXCEPT !.tick_count = 0]
          ELSE atomic_state
    /\ was_running' = FALSE
    /\ key_pc' = "idle"
    /\ UNCHANGED <<loop_pc, remaining, was_random, new_count, keys,
                   loop_ticks, run_ticks, drawn, late_ticks, binary, gui, cli>>

\* toggle_random_mode: `state.random_mode.store(!was_random, ..)`
toggle_random_mode ==
    /\ KeyPressed
    /\ was_random' = atomic_state.random_mode
    /\ atomic_state' =
          [atomic_state EXCEPT !.random_mode = ~atomic_state.random_mode]
    /\ key_pc' = "toggle_random_mode_reload"
    /\ UNCHANGED <<loop_pc, remaining, was_running, new_count, loop_ticks,
                   drawn, late_ticks, binary, gui, cli>>

\* (variant: switching random mode on reloads the countdown, running or not)
toggle_random_mode_reload_always ==
    /\ key_pc = "toggle_random_mode_reload"
    /\ IF ~was_random
       THEN /\ atomic_state' =
                  [atomic_state EXCEPT
                     !.remaining_ticks = atomic_state.random_count]
            /\ run_ticks' = Reloaded
       ELSE /\ atomic_state' = [atomic_state EXCEPT !.remaining_ticks = 0]
            /\ UNCHANGED run_ticks
    /\ was_random' = FALSE
    /\ key_pc' = "idle"
    /\ UNCHANGED <<loop_pc, remaining, was_running, new_count, keys,
                   loop_ticks, drawn, late_ticks, binary, gui, cli>>

\* toggle_random_mode: the countdown of the mode switched to or from
toggle_random_mode_reload ==
    /\ key_pc = "toggle_random_mode_reload"
    /\ IF ~was_random
       THEN IF atomic_state.is_running
            THEN /\ atomic_state' =
                       [atomic_state EXCEPT
                          !.remaining_ticks = atomic_state.random_count]
                 /\ run_ticks' = Reloaded
            ELSE UNCHANGED <<atomic_state, run_ticks>>
       ELSE /\ atomic_state' = [atomic_state EXCEPT !.remaining_ticks = 0]
            /\ UNCHANGED run_ticks
    /\ was_random' = FALSE
    /\ key_pc' = "idle"
    /\ UNCHANGED <<loop_pc, remaining, was_running, new_count, keys,
                   loop_ticks, drawn, late_ticks, binary, gui, cli>>

\* adjust_random_count(change): `state.random_count.store(new_count, ..)`
adjust_random_count(change) ==
    /\ KeyPressed
    /\ new_count' = Min(Max(atomic_state.random_count + change, 10), 1000)
    /\ atomic_state' = [atomic_state EXCEPT !.random_count = new_count']
    /\ key_pc' = "adjust_random_count_raise"
    /\ UNCHANGED <<loop_pc, remaining, was_running, was_random, loop_ticks,
                   drawn, late_ticks, binary, gui, cli>>

\* adjust_random_count: a running countdown shorter than the new count is
\* raised to it
adjust_random_count_raise ==
    /\ key_pc = "adjust_random_count_raise"
    /\ atomic_state' =
          IF /\ atomic_state.random_mode
             /\ atomic_state.is_running
             /\ new_count > atomic_state.remaining_ticks
          THEN [atomic_state EXCEPT !.remaining_ticks = new_count]
          ELSE atomic_state
    /\ new_count' = 0
    /\ key_pc' = "idle"
    /\ UNCHANGED <<loop_pc, remaining, was_running, was_random, keys,
                   loop_ticks, run_ticks, drawn, late_ticks, binary, gui, cli>>

\* the key dispatch of the main loop
KeyHandlers ==
    \/ toggle_metronome \/ toggle_metronome_reload \/ toggle_metronome_count
    \/ toggle_random_mode \/ toggle_random_mode_reload
    \/ adjust_random_count(10) \/ adjust_random_count(-10)
    \/ adjust_random_count_raise

TerminalNext == KeyHandlers \/ metronome_loop

SpecTerminal == Init /\ [][TerminalNext]_vars

(***************************************************************************)
(* metronome (src/main.rs): the beat loop and the key handlers under the   *)
(* mutex                                                                   *)
(*                                                                         *)
(* Every access to MetronomeState is made through a guard of the one       *)
(* mutex.  main takes and drops its guard within one function call, which  *)
(* is one step here; metronome_loop is cut where it sleeps or blocks.      *)
(* When the beat interval has elapsed is left open, as above.              *)
(***************************************************************************)
\* `let state_guard = state.lock().unwrap()` at the head of the iteration:
\* a stopped metronome goes to sleep for 50 ms inside the block, the guard
\* alive; a running one computes should_tick and drops the guard at the end
\* of the block
MutexLoopLock ==
    /\ binary = Cli
    /\ mutex_pc = "lock"
    /\ state_guard = "none"
    /\ IF ~state.is_running
       THEN /\ state_guard' = "metronome_loop"
            /\ mutex_pc' = "idle"
       ELSE /\ \E should_tick \in BOOLEAN :
                  /\ should_tick => mutex_ticks < MaxLoopTicks
                  /\ mutex_pc' = IF should_tick THEN "tick" ELSE "sleep"
            /\ UNCHANGED state_guard
    /\ UNCHANGED <<state, main_pc, key, mutex_keys, mutex_ticks, binary,
                   gui, terminal>>

\* the end of `thread::sleep(Duration::from_millis(50))` and `continue`:
\* the guard is dropped on leaving the block
MutexLoopWake ==
    /\ mutex_pc = "idle"
    /\ state_guard' = "none"
    /\ mutex_pc' = "lock"
    /\ UNCHANGED <<state, main_pc, key, mutex_keys, mutex_ticks, binary,
                   gui, terminal>>

\* `audio_tx.send(AudioCommand::PlayTick); last_tick = Instant::now()`
MutexLoopTick ==
    /\ mutex_pc = "tick"
    /\ mutex_ticks' = mutex_ticks + 1
    /\ mutex_pc' = "update"
    /\ UNCHANGED <<state, state_guard, main_pc, key, mutex_keys, binary,
                   gui, terminal>>

\* the countdown of random mode after a tick, under the lock
TickUpdate(st, new_bpm) ==
    IF ~st.random_mode THEN st
    ELSE LET loaded == IF st.remaining_ticks = 0
                       THEN st.random_count ELSE st.remaining_ticks
         IN  IF loaded - 1 = 0
             THEN [st EXCEPT !.bpm = new_bpm,
                             !.remaining_ticks = st.random_count]
             ELSE [st EXCEPT !.remaining_ticks = loaded - 1]

\* the second `state.lock().unwrap()` block and `tick_tx.send(())`
MutexLoopUpdate ==
    /\ mutex_pc = "update"
    /\ state_guard = "none"
    /\ \E new_bpm \in gen_range(60, 200) : state' = TickUpdate(state, new_bpm)
    /\ mutex_pc' = "sleep"
    /\ UNCHANGED <<state_guard, main_pc, key, mutex_keys, mutex_ticks,
                   binary, gui, terminal>>

\* `thread::sleep(Duration::from_millis(1))` at the end of the iteration
MutexLoopSleep ==
    /\ mutex_pc = "sleep"
    /\ mutex_pc' = "lock"
    /\ UNCHANGED <<state, state_guard, main_pc, key, mutex_keys,
                   mutex_ticks, binary, gui, terminal>>

\* display_ui: the guard is held while the screen is drawn
display_ui ==
    /\ binary = Cli
    /\ main_pc = "display"
    /\ state_guard = "none"
    /\ main_pc' = "poll"
    /\ UNCHANGED <<state, state_guard, mutex_pc, key, mutex_keys,
                   mutex_ticks, binary, gui, terminal>>

KeyCodes == {" ", "r", "Up", "Down", "Right", "Left", "+", "-"}

\* `poll(Duration::from_millis(50))` and `read()`: a key is read, or none
\* within 50 ms; the keys of a run are pressed before more than
\* MaxKeyTicks ticks were sent
MainPoll ==
    /\ main_pc = "poll"
    /\ \/ /\ mutex_keys < MaxKeys
          /\ mutex_ticks <= MaxKeyTicks
          /\ key' \in KeyCodes
          /\ mutex_keys' = mutex_keys + 1
          /\ main_pc' = "key"
       \/ /\ main_pc' = "display"
          /\ UNCHANGED <<key, mutex_keys>>
    /\ UNCHANGED <<state, state_guard, mutex_pc, mutex_ticks, binary, gui,
                   terminal>>

\* a key handler: it waits for the mutex and holds it for its whole body
Handled(code, st) ==
    /\ main_pc = "key"
    /\ key = code
    /\ state_guard = "none"
    /\ state' = st
    /\ key' = "none"
    /\ main_pc' = "display"
    /\ UNCHANGED <<state_guard, mutex_pc, mutex_keys, mutex_ticks, binary,
                   gui, terminal>>

MutexToggleMetronome ==
    LET started == [state EXCEPT !.is_running = ~state.is_running]
    IN  Handled(" ",
           IF /\ started.is_running
              /\ started.random_mode
              /\ started.remaining_ticks = 0
           THEN [started EXCEPT !.remaining_ticks = started.random_count]
           ELSE started)

MutexToggleRandomMode ==
    LET toggled == [state EXCEPT !.random_mode = ~state.random_mode]
    IN  Handled("r",
           IF toggled.random_mode
           THEN IF toggled.is_running
                THEN [toggled EXCEPT !.remaining_ticks = toggled.random_count]
                ELSE toggled
           ELSE [toggled EXCEPT !.remaining_ticks = 0])

adjust_bpm(code, change) ==
    Handled(code, [state EXCEPT !.bpm = Min(Max(state.bpm + change, 30), 300)])

MutexAdjustRandomCount(code, change) ==
    LET count == Min(Max(state.random_count + change, 10), 1000)
        stored == [state EXCEPT !.random_count = count]
    IN  Handled(code,
           IF /\ stored.random_mode
              /\ stored.is_running
              /\ count > stored.remaining_ticks
           THEN [stored EXCEPT !.remaining_ticks = count]
           ELSE stored)

MutexMain ==
    \/ display_ui \/ MainPoll
    \/ MutexToggleMetronome \/ MutexToggleRandomMode
    \/ adjust_bpm("Up", 5) \/ adjust_bpm("Down", -5)
    \/ adjust_bpm("Right", 1) \/ adjust_bpm("Left", -1)
    \/ MutexAdjustRandomCount("+", 10) \/ MutexAdjustRandomCount("-", -10)

MutexLoop ==
    \/ MutexLoopLock \/ MutexLoopWake \/ MutexLoopTick \/ MutexLoopUpdate
    \/ MutexLoopSleep

MutexNext == MutexMain \/ MutexLoop

SpecMutex == Init /\ [][MutexNext]_vars

(***************************************************************************)
(* The whole system, under any client of the command channel               *)
(***************************************************************************)
Commands ==
    {Start, Stop, Reset, ChangeBpm(0), ChangeBpm(240), ChangeVolume(100),
     ChangeSoundType(7),
     UpdateRandomSettings(2),
     UpdatePracticeSettings(<<<<240, 1>>, <<120, 2>>>>),
     UpdatePolyrhythmSettings(2, 0, TRUE, TRUE),
     UpdateRitardandoSettings(240, 120, 0),
     UpdateSubdivisionSettings(2, <<TRUE, FALSE>>),
     UpdateCountdownSettings(1, TRUE)}
    \cup {ChangeMode(m) : m \in MetronomeMode}

Presentation ==
    \/ \E c \in Commands : Send(c, MaxCommands)
    \/ UiTryLock
    \/ UiUnlock

Next == Presentation \/ Scheduler

Spec == Init /\ [][Next]_vars

(***************************************************************************)
(* Sessions: a client that starts, stops and switches modes                *)
(***************************************************************************)
SessionCommands == {Start, Stop} \cup {ChangeMode(m) : m \in MetronomeMode}

SessionClient == \E c \in SessionCommands : Send(c, MaxSessionCommands)

\* (the default countdown of 60 s outlasts the runs explored here)
SessionScheduler ==
    \/ RecvStart \/ RecvStop \/ RecvChangeMode \/ DrainEmpty
    \/ Idle \/ NoTick
    \/ TickStandard \/ TickCountdown \/ TickRandom \/ TickPractice
    \/ TickPolyrhythm \/ TickRitardando \/ TickSubdivision
    \/ Sleep(SleepSteps)

SessionNext == SessionClient \/ SessionScheduler

SpecSession == Init /\ [][SessionNext]_vars

(***************************************************************************)
(* Restarts: a client that switches between the modes with progress        *)
(* counters and starts the session over                                    *)
(***************************************************************************)
StartCommands ==
    {Start} \cup {ChangeMode(m) :
                    m \in {Random, Practice, Ritardando, Subdivision,
                           Countdown}}

StartClient == \E c \in StartCommands : Send(c, MaxStartCommands)

StartScheduler ==
    \/ RecvStart \/ RecvChangeMode \/ DrainEmpty
    \/ Idle \/ NoTick
    \/ TickCountdown \/ TickRandom \/ TickPractice
    \/ TickRitardando \/ TickSubdivision
    \/ Sleep(SleepSteps)

StartNext == StartClient \/ StartScheduler

SpecStart == Init /\ [][StartNext]_vars

(***************************************************************************)
(* Countdown sessions                                                      *)
(***************************************************************************)
CountdownCommands ==
    {Start, Stop, ChangeMode(Countdown), ChangeMode(Standard),
     UpdateCountdownSettings(1, FALSE), UpdateCountdownSettings(2, TRUE)}

CountdownClient == \E c \in CountdownCommands : Send(c, MaxCountdownCommands)

CountdownScheduler ==
    \/ RecvStart \/ RecvStop \/ RecvChangeMode
    \/ RecvUpdateCountdownSettings \/ DrainEmpty
    \/ Idle \/ CountdownFinish \/ NoTick
    \/ TickStandard \/ TickCountdown
    \/ Sleep(SleepSteps)

CountdownNext == CountdownClient \/ CountdownScheduler

SpecCountdown == Init /\ [][CountdownNext]_vars

(***************************************************************************)
(* Random mode sessions                                                    *)
(***************************************************************************)
RandomCommands ==
    {Start, ChangeMode(Random), UpdateRandomSettings(1),
     UpdateRandomSettings(2), UpdateRandomSettings(3)}

RandomClient == \E c \in RandomCommands : Send(c, MaxRandomCommands)

RandomScheduler ==
    \/ RecvStart \/ RecvChangeMode \/ RecvUpdateRandomSettings
    \/ DrainEmpty
    \/ Idle \/ NoTick \/ TickStandard \/ TickRandom
    \/ Sleep(SleepSteps)

RandomNext == RandomClient \/ RandomScheduler

SpecRandom == Init /\ [][RandomNext]_vars

(***************************************************************************)
(* Timing: sessions observed with sleeps shorter than a beat               *)
(***************************************************************************)
TimingCommands ==
    {Start, Stop, ChangeBpm(240), ChangeBpm(0), ChangeMode(Practice),
     ChangeMode(Subdivision)}

TimingClient == \E c \in TimingCommands : Send(c, MaxTimingCommands)

TimingScheduler ==
    \/ RecvStart \/ RecvStop \/ RecvChangeBpm \/ RecvChangeMode
    \/ DrainEmpty
    \/ Idle \/ NoTick \/ TickStandard \/ TickPractice \/ TickSubdivision
    \/ Sleep(FineSleepSteps)

TimingNext == TimingClient \/ TimingScheduler

SpecTiming == Init /\ [][TimingNext]_vars

(***************************************************************************)
(* Random mode sessions whose interval is changed while they run, with a   *)
(* presentation thread that reads the shared records                       *)
(***************************************************************************)
RandomUpdateCommands ==
    {Start, Stop, ChangeMode(Random), ChangeMode(Standard),
     UpdateRandomSettings(1), UpdateRandomSettings(3)}

RandomUpdatesNext ==
    \/ \E c \in RandomUpdateCommands : Send(c, MaxRandomUpdateCommands)
    \/ UiTryLock \/ UiUnlock
    \/ RecvStart \/ RecvStop \/ RecvChangeMode \/ RecvUpdateRandomSettings
    \/ DrainEmpty
    \/ Idle \/ NoTick \/ TickStandard \/ TickRandom
    \/ Sleep(SleepSteps)

SpecRandomUpdates == Init /\ [][RandomUpdatesNext]_vars

(***************************************************************************)
(* Sequences: Practice and Polyrhythm sessions followed over a dozen       *)
(* beats                                                                   *)
(***************************************************************************)
SequenceCommands ==
    {Start, ChangeMode(Practice), ChangeMode(Polyrhythm),
     UpdatePracticeSettings(<<<<60, 4>>, <<120, 4>>>>),
     UpdatePracticeSettings(<<<<240, 0>>, <<120, 1>>, <<60, 2>>>>),
     UpdatePracticeSettings(<<<<120, 2>>>>),
     UpdatePolyrhythmSettings(3, 2, FALSE, TRUE)}

SequencesNext ==
    \/ \E c \in SequenceCommands : Send(c, MaxSequenceCommands)
    \/ RecvStart \/ RecvChangeMode \/ RecvUpdatePracticeSettings
    \/ RecvUpdatePolyrhythmSettings \/ DrainEmpty
    \/ Idle \/ NoTick \/ TickStandard \/ TickPractice \/ TickPolyrhythm
    \/ SleepWithin(SequenceSleepSteps, MaxSequenceTime)

SpecSequences == Init /\ [][SequencesNext]_vars

(***************************************************************************)
(* Ritardando sessions: ramps down, up and of one beat, set before and     *)
(* while a ramp runs                                                       *)
(***************************************************************************)
RitardandoCommands ==
    {Start, ChangeMode(Ritardando),
     UpdateRitardandoSettings(240, 120, 3),
     UpdateRitardandoSettings(120, 240, 2),
     UpdateRitardandoSettings(60, 30, 0)}

RitardandoNext ==
    \/ \E c \in RitardandoCommands : Send(c, MaxRitardandoCommands)
    \/ RecvStart \/ RecvChangeMode \/ RecvUpdateRitardandoSettings
    \/ DrainEmpty
    \/ Idle \/ NoTick \/ TickStandard \/ TickRitardando
    \/ Sleep(SleepSteps)

SpecRitardando == Init /\ [][RitardandoNext]_vars

(***************************************************************************)
(* Subdivision sessions, set up through the subdivision panel              *)
(***************************************************************************)
SubdivisionCommands == {Start, ChangeMode(Subdivision), ChangeMode(Standard)}

SubdivisionNext ==
    \/ \E c \in SubdivisionCommands : Send(c, MaxSubdivisionCommands)
    \/ draw_subdivision_controls(MaxSubdivisionCommands)
    \/ RecvStart \/ RecvChangeMode \/ RecvUpdateSubdivisionSettings
    \/ DrainEmpty
    \/ Idle \/ NoTick \/ TickStandard \/ TickSubdivision
    \/ Sleep(SleepSteps)

SpecSubdivision == Init /\ [][SubdivisionNext]_vars

(***************************************************************************)
(* Playback: sessions whose volume and sound are set by commands, with     *)
(* values inside and outside the ranges the controls offer                 *)
(***************************************************************************)
PlaybackCommands ==
    {Start, ChangeMode(Polyrhythm), ChangeVolume(50), ChangeVolume(150),
     ChangeSoundType(7), ChangeSoundType(U32Max)}

PlaybackNext ==
    \/ \E c \in PlaybackCommands : Send(c, MaxPlaybackCommands)
    \/ RecvStart \/ RecvChangeMode \/ RecvChangeVolume
    \/ RecvChangeSoundType \/ DrainEmpty
    \/ Idle \/ NoTick \/ TickStandard \/ TickPolyrhythm
    \/ Sleep(SleepSteps)

SpecPlayback == Init /\ [][PlaybackNext]_vars

(***************************************************************************)
(* Countdowns of 9 s with tempo randomization, followed to their end       *)
(***************************************************************************)
TempoCommands ==
    {Start, ChangeBpm(240), ChangeMode(Countdown),
     UpdateCountdownSettings(9, TRUE)}

TempoNext ==
    \/ \E c \in TempoCommands : Send(c, MaxTempoCommands)
    \/ RecvStart \/ RecvChangeBpm \/ RecvChangeMode
    \/ RecvUpdateCountdownSettings \/ DrainEmpty
    \/ Idle \/ CountdownFinish \/ NoTick \/ TickStandard \/ TickCountdown
    \/ SleepWithin(TempoSleepSteps, MaxTempoTime)

SpecTempo == Init /\ [][TempoNext]_vars

(***************************************************************************)
(* Practice sessions, with the sections edited in the practice panel       *)
(***************************************************************************)
PracticeCommands == {Start, ChangeMode(Practice)}

PracticeNext ==
    \/ \E c \in PracticeCommands : Send(c, MaxPracticeCommands)
    \/ UiTryLock \/ UiUnlock
    \/ draw_practice_controls(MaxPracticeCommands)
    \/ RecvStart \/ RecvChangeMode \/ RecvUpdatePracticeSettings
    \/ DrainEmpty
    \/ Idle \/ NoTick \/ TickStandard \/ TickPractice
    \/ Sleep(SleepSteps)

SpecPractice == Init /\ [][PracticeNext]_vars

(***************************************************************************)
(* The command channel under fair scheduling.  metronome_thread is a       *)
(* thread of its own and never leaves its loop: it keeps taking steps,     *)
(* and a write() that waits for a guard gets the lock once the guard is    *)
(* dropped.  A frame of the presentation thread drops the guard it took    *)
(* at the end of the block.  The commands of a run are sent while an       *)
(* iteration is still to come before the clock stops.                      *)
(***************************************************************************)
DrainCommands ==
    {Start, Stop, ChangeMode(Random), UpdateRandomSettings(2)}

DrainClient ==
    /\ \A d \in SleepSteps : now + d <= MaxTime
    /\ \E c \in DrainCommands : Send(c, MaxDrainCommands)

DrainScheduler ==
    \/ RecvStart \/ RecvStop \/ RecvChangeMode \/ RecvUpdateRandomSettings
    \/ DrainEmpty
    \/ Idle \/ NoTick \/ TickStandard \/ TickRandom
    \/ Sleep(SleepSteps)

DrainNext == DrainClient \/ UiTryLock \/ UiUnlock \/ DrainScheduler

SpecDrain ==
    /\ Init
    /\ [][DrainNext]_vars
    /\ SF_vars(DrainScheduler)
    /\ WF_vars(UiUnlock)

(***************************************************************************)
(* Sessions in which every panel sends its update, with any u32 argument   *)
(***************************************************************************)
ParameterCommands ==
    {Start, ChangeMode(Random), ChangeVolume(150),
     UpdateRandomSettings(5),
     UpdatePracticeSettings(<<<<120, 2>>>>),
     UpdatePolyrhythmSettings(0, 3, TRUE, TRUE),
     UpdateRitardandoSettings(240, 120, 0),
     UpdateSubdivisionSettings(7, <<TRUE, FALSE>>),
     UpdateCountdownSettings(1, TRUE)}

ParametersNext ==
    \/ \E c \in ParameterCommands : Send(c, MaxParameterCommands)
    \/ RecvStart \/ RecvChangeMode \/ RecvChangeVolume
    \/ RecvUpdateRandomSettings \/ RecvUpdatePracticeSettings
    \/ RecvUpdatePolyrhythmSettings \/ RecvUpdateRitardandoSettings
    \/ RecvUpdateSubdivisionSettings \/ RecvUpdateCountdownSettings
    \/ DrainEmpty
    \/ Idle \/ NoTick \/ TickStandard \/ TickRandom
    \/ Sleep(SleepSteps)

SpecParameters == Init /\ [][ParametersNext]_vars

(***************************************************************************)
(* The first beats of a countdown, at the default tempo and at 300 bpm     *)
(***************************************************************************)
AccentCommands == {Start, ChangeMode(Countdown), ChangeBpm(300)}

AccentsNext ==
    \/ \E c \in AccentCommands : Send(c, MaxAccentCommands)
    \/ RecvStart \/ RecvChangeMode \/ RecvChangeBpm
    \/ DrainEmpty
    \/ Idle \/ NoTick \/ TickStandard \/ TickCountdown
    \/ SleepWithin(AccentSleepSteps, MaxAccentTime)

SpecAccents == Init /\ [][AccentsNext]_vars

(***************************************************************************)
(* Sessions with payloads at the edge: no section, periods of 0, no accent *)
(* pattern, tempo 0                                                        *)
(***************************************************************************)
DegenerateCommands ==
    {Start, ChangeMode(Practice), ChangeMode(Polyrhythm),
     ChangeMode(Subdivision), ChangeBpm(0),
     UpdatePracticeSettings(<<>>),
     UpdatePolyrhythmSettings(0, 0, TRUE, TRUE),
     UpdateSubdivisionSettings(2, <<>>)}

DegenerateNext ==
    \/ \E c \in DegenerateCommands : Send(c, MaxDegenerateCommands)
    \/ RecvStart \/ RecvChangeMode \/ RecvChangeBpm
    \/ RecvUpdatePracticeSettings \/ RecvUpdatePolyrhythmSettings
    \/ RecvUpdateSubdivisionSettings
    \/ DrainEmpty
    \/ Idle \/ NoTick \/ TickStandard \/ TickPractice \/ TickPolyrhythm
    \/ TickSubdivision
    \/ SleepWithin(DegenerateSleepSteps, MaxDegenerateTime)

SpecDegenerate == Init /\ [][DegenerateNext]_vars

(***************************************************************************)
(* Practice sessions under fair scheduling: the panel ends its block and   *)
(* drops its guard, and metronome_thread, waiting in write(), is granted   *)
(* the lock once it is free                                                *)
(***************************************************************************)
LocksScheduler ==
    \/ RecvStart \/ RecvChangeMode \/ RecvUpdatePracticeSettings
    \/ DrainEmpty
    \/ Idle \/ NoTick \/ TickStandard \/ TickPractice
    \/ Sleep(SleepSteps)

SpecLocks ==
    /\ Init
    /\ [][PracticeNext]_vars
    /\ SF_vars(LocksScheduler)
    /\ WF_vars(UiUnlock)

(***************************************************************************)
(* Either binary: mode switches, and the tempo draws of Random mode        *)
(***************************************************************************)
ModesNext == SessionNext \/ TerminalNext

SpecModes == Init /\ [][ModesNext]_vars

DrawsNext == RandomNext \/ TerminalNext

SpecDraws == Init /\ [][DrawsNext]_vars

(***************************************************************************)
(* Properties                                                              *)
(***************************************************************************)
\* this step applies the command of type t at the head of the channel
Applied(t) == Received(t) /\ command_receiver' = Tail(command_receiver)

\* the scheduler has just fired a tick and has not slept yet
AfterTick == pc = "sleep" /\ tick_algorithm # "none"

\* this step runs the loop body of an iteration that finds the session
\* stopped
StoppedIteration == pc = "decide" /\ ~is_running /\ pc' = "sleep"

Emitted(type) ==
    Cardinality({i \in DOMAIN event_sender : event_sender[i].type = type})

\* C1: in Countdown mode, an iteration that finds the time elapsed since
\* the latest Start at or past duration_seconds does not leave the session
\* running; one CountdownFinished is emitted per Start, alone in its step;
\* and once it is emitted the session is stopped and no Beat is emitted
\* until a Start is applied
C1_CountdownCompletion ==
    /\ (pc = "sleep" /\ is_running /\ mode = Countdown)
          => now - countdown_start_time
                < local_countdown_state.duration_seconds * 1000
    /\ finished <= 1
    /\ Emitted("CountdownFinished") > 0
          => /\ event_sender = <<CountdownFinished>>
             /\ finished = 1
    /\ finished = 1 => ~is_running /\ Emitted("Beat") = 0

C1_Witness ==
    /\ finished = 1
    /\ event_sender = <<CountdownFinished>>
    /\ ~is_running
    /\ mode = Countdown
    /\ local_countdown_state.duration_seconds = 1
    /\ tick_count >= 1
    /\ now - countdown_start_time >= 1000

\* what Start does to the records of the modes, whatever else it does:
\* the record of the active mode is re-initialized, the others are kept
StartModeRecords ==
    /\ local_random_state' =
          IF mode = Random
          THEN [count |-> local_random_state.count,
                remaining_ticks |-> local_random_state.count]
          ELSE local_random_state
    /\ local_practice_state' =
          IF mode = Practice
          THEN [sections |-> local_practice_state.sections,
                current_section |-> 0, section_remaining |-> 0]
          ELSE local_practice_state
    /\ local_ritardando_state' =
          IF mode = Ritardando
          THEN [start_bpm |-> local_ritardando_state.start_bpm,
                target_bpm |-> local_ritardando_state.target_bpm,
                duration |-> local_ritardando_state.duration,
                remaining |-> local_ritardando_state.duration]
          ELSE local_ritardando_state
    /\ bpm' = IF mode = Ritardando THEN local_ritardando_state.start_bpm
              ELSE bpm
    /\ local_countdown_state' =
          IF mode = Countdown
          THEN [duration_seconds |-> local_countdown_state.duration_seconds,
                remaining_seconds |->
                    local_countdown_state.duration_seconds * 1000,
                enable_random_bpm |-> local_countdown_state.enable_random_bpm,
                original_bpm |-> bpm,
                next_bpm_change |-> 5000]
          ELSE local_countdown_state
    /\ UNCHANGED <<mode, local_polyrhythm_state, local_subdivision_state>>

\* C2 (as amended): applying Start sets running and beat_count = 0,
\* re-initializes the record of the active mode and of no other mode
\* (Random remaining = interval; Practice section index and remaining = 0;
\* Ritardando remaining = ramp length and tempo = start_bpm; Countdown
\* remaining = duration, baseline = current tempo, next tempo change in
\* 5 s), and in every mode sets the subdivision tick index to 0
C2_StartResets ==
    [][Applied("Start") =>
          /\ is_running'
          /\ tick_count' = 0
          /\ StartModeRecords
          /\ subdivision_tick' = 0]_vars

\* C2 as stated: the same, with the subdivision tick index among the
\* counters a Start in another mode leaves alone
C2_StartResetsActiveModeOnly ==
    [][Applied("Start") =>
          /\ is_running'
          /\ tick_count' = 0
          /\ StartModeRecords
          /\ mode # Subdivision => subdivision_tick' = subdivision_tick]_vars

\* a Start in Countdown mode, after a Practice section has set the tempo
C2_Witness ==
    /\ fresh
    /\ is_running
    /\ tick_count = 0
    /\ prev_beat >= 0
    /\ mode = Countdown
    /\ local_countdown_state.original_bpm = 60
    /\ local_countdown_state.remaining_seconds = 60000
    /\ local_practice_state.section_remaining > 0

\* the counters of a session: beat count, tempo, active mode and the
\* records of the modes
SessionCounters == <<tick_count, bpm, mode, locals>>

\* C3 (as amended): applying Stop clears the running flag and changes no
\* counter (beat count, tempo, active mode, the records of the modes, the
\* subdivision tick index); an iteration that finds the session stopped
\* keeps them too, except the subdivision tick index, which it sets to 0
C3_StopKeepsCounters ==
    [][/\ Applied("Stop") =>
             /\ ~is_running'
             /\ UNCHANGED <<SessionCounters, subdivision_tick>>
       /\ StoppedIteration =>
             /\ ~is_running'
             /\ UNCHANGED SessionCounters
             /\ subdivision_tick' = 0]_vars

\* C3 as stated: every counter, the subdivision tick index included, keeps
\* through the stop the value it had before Stop was applied
C3_StopKeepsEveryCounter ==
    [][(Applied("Stop") \/ (stops >= 1 /\ StoppedIteration)) =>
          UNCHANGED <<SessionCounters, subdivision_tick>>]_vars

\* stopped in the middle of the first Practice section
C3_Witness ==
    /\ ~is_running
    /\ stops = 1
    /\ pc = "sleep"
    /\ mode = Practice
    /\ tick_count = 2
    /\ bpm = 60
    /\ local_practice_state.current_section = 1
    /\ local_practice_state.section_remaining = 30

\* the shared state: the atomics and the lock-protected records
SharedState == <<atomics, shared_modes, last_beat>>

\* C4: once a Stop has been applied, no step changes the shared state
\* until a command other than Stop is applied; a second Stop in a row
\* leaves it as the first one left it
C4_StopIdempotent ==
    [][stops >= 1 /\ stops' >= 1 => UNCHANGED SharedState]_vars

C4_Witness ==
    /\ stops = 2
    /\ ~is_running
    /\ tick_count >= 1
    /\ command_receiver = <<>>

\* C5: applying ChangeMode(m) sets the active mode to m, emits the one
\* event ModeChanged{m}, and changes no record of any mode, nor the
\* subdivision tick index, beat count, tempo or running flag
C5_ChangeModeKeepsCounters ==
    [][Applied("ChangeMode") =>
          /\ mode' = Head(command_receiver).mode
          /\ event_sender' =
                <<[type |-> "ModeChanged",
                   mode |-> Head(command_receiver).mode]>>
          /\ UNCHANGED <<locals, shared_modes, subdivision_tick,
                         tick_count, bpm, is_running>>]_vars

\* a switch to Practice while running, in the middle of a section
C5_Witness ==
    /\ event_sender = <<ModeChanged(Practice)>>
    /\ mode = Practice
    /\ is_running
    /\ tick_count = 1
    /\ local_practice_state.current_section = 1
    /\ local_practice_state.section_remaining = 31

\* this step ends toggle_random_mode
RandomModeToggled ==
    key_pc = "toggle_random_mode_reload" /\ key_pc' = "idle"

\* C6 (as amended): one mode is active at a time; in metronome_thread a
\* mode switch changes neither the configuration nor the progress counters
\* of the mode switched to (they keep the values they had, which need not
\* be the fresh-start values); in the terminal metronome switching random
\* mode on or off keeps random_count, and remaining_ticks is reloaded with
\* random_count only when the mode is switched on while running: switched
\* on while stopped it is kept, switched off it is set to 0
C6_ModeSwitch ==
    [][/\ Applied("ChangeMode") =>
             /\ mode' \in MetronomeMode
             /\ UNCHANGED <<local_random_state, local_practice_state,
                            local_polyrhythm_state, local_ritardando_state,
                            local_subdivision_state, local_countdown_state,
                            subdivision_tick>>
       /\ RandomModeToggled =>
             /\ atomic_state'.random_mode \in BOOLEAN
             /\ atomic_state'.random_count = atomic_state.random_count
             /\ atomic_state'.remaining_ticks =
                   IF ~atomic_state.random_mode THEN 0
                   ELSE IF atomic_state.is_running
                   THEN atomic_state.random_count
                   ELSE atomic_state.remaining_ticks]_vars

\* C6 as stated: after a switch to a mode, the progress counters of that
\* mode hold their fresh-start values and its configuration is unchanged
C6_ModeSwitchResets ==
    [][/\ Applied("ChangeMode") =>
             /\ mode' = Random =>
                   local_random_state' =
                      [local_random_state EXCEPT
                         !.remaining_ticks = local_random_state.count]
             /\ mode' = Practice =>
                   local_practice_state' =
                      [local_practice_state EXCEPT
                         !.current_section = 0, !.section_remaining = 0]
             /\ mode' = Ritardando =>
                   local_ritardando_state' =
                      [local_ritardando_state EXCEPT
                         !.remaining = local_ritardando_state.duration]
             /\ mode' = Subdivision =>
                   /\ subdivision_tick' = 0
                   /\ UNCHANGED local_subdivision_state
             /\ mode' = Countdown =>
                   local_countdown_state' =
                      [local_countdown_state EXCEPT
                         !.remaining_seconds =
                            local_countdown_state.duration_seconds * 1000]
             /\ UNCHANGED local_polyrhythm_state
       /\ (RandomModeToggled /\ atomic_state.random_mode) =>
             /\ atomic_state'.random_count = atomic_state.random_count
             /\ atomic_state'.remaining_ticks =
                   atomic_state.random_count]_vars

\* a switch to Ritardando before any Start: the ramp counter is 0, not the
\* ramp length
C6_Witness ==
    /\ event_sender = <<ModeChanged(Ritardando)>>
    /\ mode = Ritardando
    /\ local_ritardando_state.remaining = 0
    /\ local_ritardando_state.duration = 64

\* this step fires a tick
BeatStep == pc = "decide" /\ tick_count' = tick_count + 1

\* the beat interval of the running session (ms)
Interval == BeatInterval(mode, bpm, local_subdivision_state.subdivisions)

\* C7: a tick fires only when a full beat interval has passed since the
\* interval timer was restarted and since the previous Beat, it emits one
\* Beat, however late the iteration is, and it restarts the
\* interval timer at the current instant
C7_OneTickPerInterval ==
    [][BeatStep =>
          /\ now - last_tick >= Interval
          /\ prev_beat >= 0 => now - prev_beat >= Interval
          /\ Cardinality({i \in DOMAIN event_sender' :
                            event_sender'[i].type = "Beat"}) = 1
          /\ last_tick' = now]_vars

\* an iteration two intervals late (240 bpm, 500 ms after the Start)
C7_Witness ==
    /\ AfterTick
    /\ is_running
    /\ mode = Standard
    /\ bpm = 240
    /\ tick_count = 1
    /\ now - countdown_start_time = 500
    /\ Emitted("Beat") = 1
    /\ last_tick = now

\* C8: the timing decision of an iteration is taken with no command left
\* of those pending when the iteration started, and a tick that fires is
\* computed from the running flag, tempo and mode they set, by the
\* algorithm of the active mode
C8_CommandsBeforeTick ==
    [][/\ pc = "decide" => pending = 0
       /\ BeatStep =>
             /\ is_running
             /\ now - last_tick >= 60000 \div (IF bpm = 0 THEN 1 ELSE bpm)
             /\ tick_algorithm' = mode]_vars

\* the first tick after a switch to Practice made while running
C8_Witness ==
    /\ AfterTick
    /\ ~fresh
    /\ tick_algorithm = Practice
    /\ tick_count = 2
    /\ event_sender = <<BpmChanged(60), Beat(2, FALSE)>>
    /\ local_practice_state.section_remaining = 31

\* a session started in Random mode, with no command applied since
FreshRandom ==
    /\ fresh
    /\ mode = Random
    /\ local_random_state.count >= 1

\* C9: after N >= 1 ticks of a session freshly started in Random mode with
\* interval I, the remaining count is I - (N mod I), and I when N mod I = 0
C9_RandomRemainingFormula ==
    (FreshRandom /\ tick_count >= 1) =>
        local_random_state.remaining_ticks =
            IF tick_count % local_random_state.count = 0
            THEN local_random_state.count
            ELSE local_random_state.count
                    - (tick_count % local_random_state.count)

\* this step of metronome_thread, a Random tick, draws a tempo
RandomDrawn ==
    \E i \in DOMAIN event_sender' : event_sender'[i].type = "BpmChanged"

\* C10: a Random tick draws a tempo exactly when it brings the remaining
\* count to 0, the tempo drawn lies in 60..200, and in a session freshly
\* started in Random mode with interval I the ticks that draw are those
\* whose number is a multiple of I; the terminal metronome's loop draws
\* exactly when the count it stores is 0, a tempo in 60..200, and after a
\* key handler has reloaded the count, with no key pressed since, on every
\* random_count-th tick
C10_RandomDraws ==
    [][/\ (BeatStep /\ mode = Random) =>
             /\ RandomDrawn <=> local_random_state'.remaining_ticks = 0
             /\ RandomDrawn =>
                   /\ bpm' \in 60..200
                   /\ event_sender' =
                         <<[type |-> "BpmChanged", bpm |-> bpm'],
                           [type |-> "Beat", tick_count |-> tick_count',
                            is_accent |-> FALSE]>>
             /\ ~RandomDrawn => bpm' = bpm
             /\ FreshRandom =>
                   (RandomDrawn <=>
                       tick_count' % local_random_state.count = 0)
       /\ (loop_pc = "store" /\ loop_pc' # "store") =>
             /\ loop_pc' = "draw" <=> atomic_state'.remaining_ticks = 0
             /\ run_ticks' >= 1 =>
                   (loop_pc' = "draw" <=>
                       run_ticks' % atomic_state.random_count = 0)
       /\ (loop_pc = "draw" /\ loop_pc' # "draw") =>
             atomic_state'.bpm \in 60..200]_vars

\* the second draw of a session started in Random mode with interval 2
C10_Witness ==
    /\ AfterTick
    /\ FreshRandom
    /\ local_random_state = [count |-> 2, remaining_ticks |-> 0]
    /\ tick_count = 4
    /\ bpm = 200
    /\ event_sender = <<BpmChanged(200), Beat(4, FALSE)>>

\* C11: the remaining count of RandomState never exceeds the interval, in
\* the scheduler's record and in the shared copy, whatever the sequence of
\* Start, Stop, ChangeMode, UpdateRandomSettings (raising or lowering the
\* interval) and ticks
C11_RandomRemainingBound ==
    /\ local_random_state.remaining_ticks <= local_random_state.count
    /\ random_state.remaining_ticks <= random_state.count

\* the interval was lowered from 100 to 1 after the first tick of a running
\* Random session, and the second tick has fired
C11_Witness ==
    /\ AfterTick
    /\ mode = Random
    /\ ~fresh
    /\ tick_count = 2
    /\ local_random_state = [count |-> 1, remaining_ticks |-> 0]

\* a session started in Practice mode, with no command since
FreshPractice ==
    /\ fresh
    /\ mode = Practice
    /\ local_practice_state.sections # <<>>

\* the beats of a list of sections, summed
RECURSIVE SumBeats(_)
SumBeats(sections) ==
    IF sections = <<>> THEN 0
    ELSE sections[1][2] + SumBeats(Tail(sections))

\* the ticks one pass through the sections takes: a section of b beats
\* lasts b ticks, and one tick when b = 0
RECURSIVE CycleTicks(_)
CycleTicks(sections) ==
    IF sections = <<>> THEN 0
    ELSE Max(sections[1][2], 1) + CycleTicks(Tail(sections))

\* the section (from 1) that the tick at offset n of a pass belongs to
RECURSIVE SectionAt(_, _)
SectionAt(sections, n) ==
    IF n < Max(sections[1][2], 1) THEN 1
    ELSE 1 + SectionAt(Tail(sections), n - Max(sections[1][2], 1))

\* C12 as stated: b1+...+bk ticks after a fresh Start in Practice mode
\* (every bi >= 1) the section index is back at 0 and the tempo is back at
\* the tempo of the first section
C12_PracticeWraparound ==
    (/\ FreshPractice
     /\ \A i \in DOMAIN local_practice_state.sections :
           local_practice_state.sections[i][2] >= 1
     /\ tick_count = SumBeats(local_practice_state.sections)) =>
        /\ local_practice_state.current_section = 0
        /\ bpm = local_practice_state.sections[1][1]

\* C12 (as amended): after N >= 1 ticks of a session freshly started in
\* Practice mode the tempo is that of the section the N-th tick belongs to
\* and current_section is the index of the section after it, wrapped; so
\* after the last tick of a pass (tick b1+...+bk when every bi >= 1) the
\* index is 0, no beat of a section remains, and the tempo is still that of
\* the last section: the tempo of the first section is set by the next tick
C12_PracticeCycle ==
    (FreshPractice /\ tick_count >= 1) =>
        LET sections == local_practice_state.sections
            offset == (tick_count - 1) % CycleTicks(sections)
            playing == SectionAt(sections, offset)
        IN  /\ bpm = sections[playing][1]
            /\ local_practice_state.current_section =
                  playing % Len(sections)
            /\ tick_count % CycleTicks(sections) = 0 =>
                  /\ local_practice_state.current_section = 0
                  /\ local_practice_state.section_remaining = 0
                  /\ bpm = sections[Len(sections)][1]

\* sections [(60,4),(120,4)], 8 ticks after the Start: the index is 0 and
\* the tempo is 120
C12_Witness ==
    /\ AfterTick
    /\ FreshPractice
    /\ local_practice_state =
          [sections |-> <<<<60, 4>>, <<120, 4>>>>,
           current_section |-> 0, section_remaining |-> 0]
    /\ tick_count = 8
    /\ bpm = 120

\* C13: while the list of sections is not empty, current_section is an
\* index of it, in the scheduler's record and in the shared copy
C13_PracticeIndexInRange ==
    /\ local_practice_state.sections # <<>> =>
          local_practice_state.current_section
              < Len(local_practice_state.sections)
    /\ practice_state.sections # <<>> =>
          practice_state.current_section < Len(practice_state.sections)

\* C14: a Polyrhythm tick at beat count n (the count before the tick) is
\* accented iff n is a multiple of primary and accent_primary is set, plays
\* the alternate sound iff n is a multiple of secondary and accent_secondary
\* is set, and changes neither the tempo nor any mode record; with periods
\* 4 and 3 and both flags set, beats 0 and 12 give (true, true), beats 4
\* and 8 (true, false), beats 3, 6 and 9 (false, true)
C14_PolyrhythmDeterminism ==
    [][(pc = "decide" /\ pc' = "sleep" /\ tick_algorithm' = Polyrhythm) =>
          LET ps == local_polyrhythm_state
              n == tick_count
              accent == n % ps.primary = 0 /\ ps.accent_primary
              alternate_sound == n % ps.secondary = 0 /\ ps.accent_secondary
              pair == <<event_sender'[1].is_accent,
                        sink'[1].sound # sound_type>>
          IN  /\ event_sender' = <<Beat(n + 1, accent)>>
              /\ sink' = <<[sound |-> IF alternate_sound
                                       THEN (sound_type + 1) % 8
                                       ELSE sound_type,
                            gain |-> TickGain(volume, accent)]>>
              /\ UNCHANGED <<bpm, mode, locals, shared_modes,
                             subdivision_tick>>
              /\ (ps = InitPolyrhythmState /\ n \in {0, 12}) =>
                    pair = <<TRUE, TRUE>>
              /\ (ps = InitPolyrhythmState /\ n \in {4, 8}) =>
                    pair = <<TRUE, FALSE>>
              /\ (ps = InitPolyrhythmState /\ n \in {3, 6, 9}) =>
                    pair = <<FALSE, TRUE>>]_vars

\* the tick at beat count 12 with periods 4 and 3: accented, and played
\* with the alternate sound
C14_Witness ==
    /\ AfterTick
    /\ mode = Polyrhythm
    /\ local_polyrhythm_state = InitPolyrhythmState
    /\ tick_count = 13
    /\ event_sender = <<Beat(13, TRUE)>>
    /\ sink = <<[sound |-> 1, gain |-> 1000]>>

\* this step is a tick of a session started in Ritardando mode, with no
\* command since the Start
FreshRitardandoTick ==
    /\ pc = "decide"
    /\ pc' = "sleep"
    /\ tick_algorithm' = Ritardando
    /\ fresh

\* C15: in a session freshly started in Ritardando mode the first tick of a
\* ramp sets start_bpm, and every later tick of the ramp sets a tempo that
\* is not above the previous one when target_bpm < start_bpm and not below
\* it otherwise, between start_bpm and target_bpm
C15_RitardandoMonotonic ==
    [][FreshRitardandoTick =>
          LET rt == local_ritardando_state
              first == rt.remaining \in {0, rt.duration}
          IN  /\ first => bpm' = Max(rt.start_bpm, 1)
              /\ (~first /\ rt.target_bpm < rt.start_bpm) =>
                    /\ bpm' <= bpm
                    /\ bpm' >= rt.target_bpm
              /\ (~first /\ rt.target_bpm >= rt.start_bpm) =>
                    /\ bpm' >= bpm
                    /\ bpm' <= rt.target_bpm]_vars

\* the last tick of the ramp from 240 to 120 over 3 beats: the tempos were
\* 240, 200 and now 160
C15_Witness ==
    /\ AfterTick
    /\ fresh
    /\ mode = Ritardando
    /\ local_ritardando_state =
          [start_bpm |-> 240, target_bpm |-> 120, duration |-> 3,
           remaining |-> 0]
    /\ tick_count = 3
    /\ bpm = 160

\* C16: the tick that brings the remaining count of a ramp to 0 sets the
\* tempo to target_bpm
C16_RitardandoReachesTarget ==
    [][(FreshRitardandoTick /\ local_ritardando_state'.remaining = 0) =>
          bpm' = local_ritardando_state.target_bpm]_vars

\* C17: the remaining count of RitardandoState never exceeds the ramp
\* length, in the scheduler's record and in the shared copy
C17_RitardandoRemainingBound ==
    /\ local_ritardando_state.remaining <= local_ritardando_state.duration
    /\ ritardando_state.remaining <= ritardando_state.duration

\* C18: the length of accent_pattern equals subdivisions, in the
\* scheduler's record and in the shared copy, from the default state on
C18_SubdivisionPatternLength ==
    /\ Len(local_subdivision_state.accent_pattern)
          = local_subdivision_state.subdivisions
    /\ Len(subdivision_state.accent_pattern) = subdivision_state.subdivisions

\* C19: when the subdivision panel changes the factor to a value f that
\* differs from the length of the current pattern, the pattern it sends in
\* UpdateSubdivisionSettings has length f, element 0 accented, the elements
\* it kept as they were and every added element not accented; from factor 1
\* with pattern [true] to factor 4 it sends [true, false, false, false]
C19_SubdivisionResize ==
    [][LET sent_now == command_receiver'[Len(command_receiver')]
           copied == subdivision_state.accent_pattern
       IN  (/\ Len(command_receiver') = Len(command_receiver) + 1
            /\ sent_now.type = "UpdateSubdivisionSettings"
            /\ sent_now.subdivisions # subdivision_state.subdivisions
            /\ sent_now.subdivisions # Len(copied)) =>
              /\ Len(sent_now.pattern) = sent_now.subdivisions
              /\ sent_now.pattern[1] = TRUE
              /\ \A i \in 2..Len(sent_now.pattern) :
                    sent_now.pattern[i] =
                        IF i <= Len(copied) THEN copied[i] ELSE FALSE
              /\ (copied = <<TRUE>> /\ sent_now.subdivisions = 4) =>
                    sent_now.pattern = <<TRUE, FALSE, FALSE, FALSE>>]_vars

\* the panel has sent the pattern for the change from factor 1 to factor 4
C19_Witness ==
    /\ subdivision_state = [subdivisions |-> 1, accent_pattern |-> <<TRUE>>]
    /\ command_receiver =
          <<UpdateSubdivisionSettings(4, <<TRUE, FALSE, FALSE, FALSE>>)>>

\* C20: the beat interval a running iteration computes is 60000 ms divided
\* by the tempo, floored to 1 when it is 0, times the subdivision factor
\* in Subdivision mode: it is finite whatever the tempo
C20_BeatIntervalFloored ==
    (pc = "decide" /\ is_running) =>
        LET subdivisions == local_subdivision_state.subdivisions
            multiplier == IF mode = Subdivision /\ subdivisions \in 1..4
                          THEN subdivisions ELSE 1
        IN  /\ Interval = 60000 \div (Max(bpm, 1) * multiplier)
            /\ Interval <= 60000

\* C21: the gain of every played tick is volume x 1.5 when the tick is
\* accented and volume x 1.0 otherwise, clamped to at most 1.0: whatever
\* volume ChangeVolume has stored, the gain handed to the sink lies in [0,1]
C21_TickGainClamped ==
    AfterTick =>
        \A i \in DOMAIN sink :
            LET is_accent == event_sender[Len(event_sender)].is_accent
            IN  /\ sink[i].gain =
                      Min(volume * (IF is_accent THEN 15 ELSE 10), 1000)
                /\ sink[i].gain \in 0..1000

\* C22: while a Countdown session runs with tempo randomization, a new
\* tempo in [80,180] is stored (and announced) at most 8 s after the Start
\* and then every 3 to 8 s: once an iteration has found 8 s elapsed since
\* the Start, with no command applied in between, the tempo is one of
\* [80,180], and so it is when a countdown longer than 8 s finishes
C22_CountdownTempoChanges ==
    (/\ fresh
     /\ mode = Countdown
     /\ local_countdown_state.enable_random_bpm
     /\ now - countdown_start_time >= 8000
     /\ \/ is_running /\ pc = "sleep"
        \/ ~is_running /\ finished = 1) =>
        bpm \in 80..180

\* this step is one of the presentation thread: it sends a command, or
\* takes or drops a guard
PresentationStep == sent' # sent \/ ui_guard' # ui_guard

\* C23: the scheduler thread is the sole writer of the shared session state
\* and of the shared copies of the mode records: no step of the
\* presentation thread changes any of them
C23_SchedulerSoleWriter ==
    [][PresentationStep =>
          UNCHANGED <<atomics, shared_modes, last_beat>>]_vars

\* C24: accesses of the presentation thread to the shared mode records
\* never make the scheduler wait: in no state is metronome_thread blocked
\* on a lock that the presentation thread holds
C24_SchedulerNeverBlocked == ~Blocked

\* the number of commands taken from the channel so far
Drained == sent - Len(command_receiver)

\* the step applies the command c as its handler does
HandledAs(c) ==
    /\ c.type = "Start" => is_running' /\ tick_count' = 0
    /\ c.type = "Stop" => ~is_running'
    /\ c.type = "ChangeMode" => mode' = c.mode
    /\ c.type = "UpdateRandomSettings" =>
          local_random_state' = [count |-> c.count,
                                 remaining_ticks |-> c.count]

ModeRecords ==
    [m \in MetronomeMode \ {Standard} |->
        CASE m = Random -> <<local_random_state, random_state>>
          [] m = Practice -> <<local_practice_state, practice_state>>
          [] m = Polyrhythm -> <<local_polyrhythm_state, polyrhythm_state>>
          [] m = Ritardando -> <<local_ritardando_state, ritardando_state>>
          [] m = Subdivision -> <<local_subdivision_state, subdivision_state>>
          [] m = Countdown -> <<local_countdown_state, countdown_state>>]

\* the record an update command c makes of the private record rec
UpdateEffect(c, rec) ==
    CASE c.type = "UpdateRandomSettings" ->
            [count |-> c.count, remaining_ticks |-> c.count]
      [] c.type = "UpdatePracticeSettings" ->
            [rec EXCEPT !.sections = c.sections]
      [] c.type = "UpdatePolyrhythmSettings" ->
            [primary |-> c.primary, secondary |-> c.secondary,
             accent_primary |-> c.accent_primary,
             accent_secondary |-> c.accent_secondary]
      [] c.type = "UpdateRitardandoSettings" ->
            [rec EXCEPT !.start_bpm = c.start_bpm,
                        !.target_bpm = c.target_bpm,
                        !.duration = IF c.duration = 0 THEN 1 ELSE c.duration]
      [] c.type = "UpdateSubdivisionSettings" ->
            [subdivisions |-> c.subdivisions, accent_pattern |-> c.pattern]
      [] c.type = "UpdateCountdownSettings" ->
            [rec EXCEPT !.duration_seconds = c.duration_seconds,
                        !.enable_random_bpm = c.enable_random_bpm]

\* the scheduler takes the oldest command, of type t
Taken(t) ==
    /\ command_receiver # <<>>
    /\ Head(command_receiver).type = t
    /\ sent' = sent
    /\ command_receiver' = Tail(command_receiver)

UpdateTypes ==
    {"UpdateRandomSettings", "UpdatePracticeSettings",
     "UpdatePolyrhythmSettings", "UpdateRitardandoSettings",
     "UpdateSubdivisionSettings", "UpdateCountdownSettings"}

\* C26: a parameter-update command changes only the records of the mode it
\* targets: the running flag, tempo, tick count, active mode, volume, sound,
\* the timers and the records of every other mode are unchanged, and the new
\* record is made of the command and the old record alone, so the effect is
\* the same running or stopped
C26_UpdateTargetsOneMode ==
    [][\A t \in UpdateTypes :
          Taken(t) =>
              LET c == Head(command_receiver)
                  m == WrittenBy(t)
                  updated == UpdateEffect(c, ModeRecords[m][1])
              IN  /\ UNCHANGED <<atomics, timers, last_beat>>
                  /\ \A o \in DOMAIN ModeRecords \ {m} :
                        ModeRecords'[o] = ModeRecords[o]
                  /\ ModeRecords'[m] = <<updated, updated>>]_vars

C26_Witness ==
    /\ is_running
    /\ ~fresh
    /\ mode = Random
    /\ tick_count = 1
    /\ sent = 3
    /\ command_receiver = <<>>
    /\ local_ritardando_state =
          [start_bpm |-> 240, target_bpm |-> 120, duration |-> 1,
           remaining |-> 0]
    /\ ritardando_state = local_ritardando_state
    /\ local_random_state = [count |-> 100, remaining_ticks |-> 99]

(***************************************************************************)
(* Faults                                                                  *)
(***************************************************************************)
\* C27: a failure inside a mode tick algorithm never terminates the
\* scheduler: the loop is always at one of its positions, draining commands,
\* deciding on a tick or sleeping
C27_TickFailureCaught == pc \in {"recv", "decide", "sleep"}

\* C28: an UpdateRitardandoSettings command with ramp length 0 is applied,
\* not rejected, and stores the start and target tempo with ramp length 1;
\* the ramp length is at least 1 in every reachable state, in the private
\* and in the shared record, so the progress of the ramp is never a division
\* by zero
C28_RampLengthClamped ==
    /\ [](local_ritardando_state.duration >= 1
            /\ ritardando_state.duration >= 1)
    /\ [][(Taken("UpdateRitardandoSettings")
              /\ Head(command_receiver).duration = 0) =>
            /\ local_ritardando_state' =
                  [local_ritardando_state EXCEPT
                     !.start_bpm = Head(command_receiver).start_bpm,
                     !.target_bpm = Head(command_receiver).target_bpm,
                     !.duration = 1]
            /\ ritardando_state' = local_ritardando_state']_vars

C28_Witness ==
    /\ AfterTick
    /\ tick_algorithm = Ritardando
    /\ local_ritardando_state =
          [start_bpm |-> 60, target_bpm |-> 30, duration |-> 1,
           remaining |-> 0]
    /\ ritardando_state = local_ritardando_state
    /\ bpm = 60

\* C29: the ranges of the data model hold in every reachable state: the
\* volume is in 0..100, the interval of Random mode in 10..500, both periods
\* of the polyrhythm are at least 1 and the subdivision factor is in 1..4,
\* in the private and in the shared records, whatever arguments the commands
\* carry
C29_RangesHold ==
    /\ volume \in 0..100
    /\ \A r \in {local_random_state, random_state} : r.count \in 10..500
    /\ \A r \in {local_polyrhythm_state, polyrhythm_state} :
          r.primary >= 1 /\ r.secondary >= 1
    /\ \A r \in {local_subdivision_state, subdivision_state} :
          r.subdivisions \in 1..4

\* C30: the mode records are mirrored to the shared state: whenever the
\* scheduler has finished an iteration and the presentation thread holds no
\* guard, the shared record of every mode equals the private one
C30_SharedMirrorsLocal ==
    (pc = "sleep" /\ ui_guard = "none") =>
        \A m \in DOMAIN ModeRecords : ModeRecords[m][2] = ModeRecords[m][1]

(***************************************************************************)
(* The mode steps, one tick at a time                                      *)
(***************************************************************************)
\* this step is a tick computed by the arm of mode m
TickOf(m) == pc = "decide" /\ pc' = "sleep" /\ tick_algorithm' = m

\* the beat count of the section a Practice tick loads, -1 when it loads none
LoadedBeats(ps) ==
    IF ps.current_section < Len(ps.sections)
    THEN ps.sections[ps.current_section + 1][2]
    ELSE -1

\* C31 as stated: a Practice tick that finds section_remaining 0 and a
\* non-empty list ends with section_remaining at the beat count of the
\* section it loads and the index advanced by one modulo the length; the
\* counter is decremented by one only on ticks that find it non-zero
C31_PracticeRolloverStep ==
    [][TickOf(Practice) =>
          LET ps == local_practice_state
          IN  IF ps.section_remaining = 0
              THEN ps.sections # <<>> =>
                     /\ local_practice_state'.section_remaining
                           = LoadedBeats(ps)
                     /\ local_practice_state'.current_section
                           = (ps.current_section + 1) % Len(ps.sections)
              ELSE local_practice_state'.section_remaining
                     = ps.section_remaining - 1]_vars

\* C31 (as amended): a Practice tick that finds section_remaining 0 and
\* current_section an index of the list loads that section: it stores its
\* tempo, advances the index by one modulo the length and, counting itself
\* as the first beat, ends with section_remaining at the beat count less
\* one (0 for a section of no beat); every other Practice tick leaves the
\* index, the list and the tempo alone and decrements the counter by one,
\* or leaves it at 0
C31_PracticeRolloverCounts ==
    [][TickOf(Practice) =>
          LET ps == local_practice_state
          IN  IF ps.section_remaining = 0
                    /\ ps.current_section < Len(ps.sections)
              THEN /\ local_practice_state' =
                        [ps EXCEPT
                           !.section_remaining =
                              Max(LoadedBeats(ps) - 1, 0),
                           !.current_section =
                              (ps.current_section + 1) % Len(ps.sections)]
                   /\ bpm' = ps.sections[ps.current_section + 1][1]
              ELSE /\ local_practice_state' =
                        [ps EXCEPT
                           !.section_remaining =
                              Max(ps.section_remaining - 1, 0)]
                   /\ bpm' = bpm]_vars

\* the first tick of a Practice session with the default list: section
\* (60, 32) is loaded and 31 beats of it remain
C31_Witness ==
    /\ AfterTick
    /\ tick_algorithm = Practice
    /\ tick_count = 1
    /\ bpm = 60
    /\ local_practice_state =
          [sections |-> InitPracticeState.sections,
           current_section |-> 1, section_remaining |-> 31]

\* this tick is the first since the Start, or the first at or after a
\* multiple of 10 s of countdown time that the tick before it preceded
CrossesBoundary ==
    \/ tick_count = 0
    \/ (now - countdown_start_time) \div 10000
          > (prev_beat - countdown_start_time) \div 10000

\* C32: in Countdown mode a tick is accented only if it is the first tick at
\* or after a multiple of 10 s of elapsed time, so at most one tick is
\* accented per boundary, and the first tick at or after 10 s, 20 s, ... is
\* accented, at every tempo
C32_CountdownAccents ==
    [][TickOf(Countdown) =>
          LET is_accent == event_sender'[Len(event_sender')].is_accent
          IN  /\ is_accent => CrossesBoundary
              /\ (CrossesBoundary /\ now - countdown_start_time >= 10000)
                    => is_accent]_vars

\* this step is the timing decision of a running session
RunningDecision == pc = "decide" /\ is_running /\ pc' # pc

\* C33: no payload takes the scheduler out of its loop, and with a payload
\* at the edge the mode step is a no-op while the tick fires: a Practice
\* tick with no section loads nothing (tempo and index stay), a
\* Polyrhythm tick with a period of 0 has no hit of that rhythm (no accent,
\* no alternate sound), a Subdivision tick with no pattern is not accented,
\* and with tempo 0 outside Subdivision mode the tick fires once 60 s have
\* passed since the latest one; each of these ticks counts the beat, sends
\* its Beat and goes on to the sleep
C33_DegeneratePayloads ==
    /\ [](pc \in {"recv", "decide", "sleep"})
    /\ [][/\ (TickOf(Practice) /\ local_practice_state.sections = <<>>) =>
                /\ bpm' = bpm
                /\ local_practice_state'.sections = <<>>
                /\ local_practice_state'.current_section
                      = local_practice_state.current_section
                /\ event_sender' = <<Beat(tick_count + 1, FALSE)>>
          /\ (TickOf(Polyrhythm) /\ local_polyrhythm_state.primary = 0) =>
                /\ UNCHANGED <<bpm, local_polyrhythm_state>>
                /\ event_sender' = <<Beat(tick_count + 1, FALSE)>>
          /\ (TickOf(Polyrhythm) /\ local_polyrhythm_state.secondary = 0) =>
                /\ UNCHANGED <<bpm, local_polyrhythm_state>>
                /\ sink' = Played(sound_type, TickGain(volume, FALSE))
          /\ (TickOf(Subdivision)
                /\ local_subdivision_state.accent_pattern = <<>>) =>
                /\ UNCHANGED <<bpm, local_subdivision_state>>
                /\ event_sender' = <<Beat(tick_count + 1, FALSE)>>
          /\ (RunningDecision /\ bpm = 0 /\ mode # Subdivision) =>
                /\ tick_count' = tick_count + 1 <=> now - last_tick >= 60000
                /\ tick_count' = tick_count + 1 =>
                      /\ event_sender'[Len(event_sender')].type = "Beat"
                      /\ pc' = "sleep"]_vars

\* a beat of a running Subdivision session with no accent pattern
C33_Witness ==
    /\ AfterTick
    /\ tick_algorithm = Subdivision
    /\ local_subdivision_state = [subdivisions |-> 2, accent_pattern |-> <<>>]
    /\ tick_count = 1
    /\ event_sender = <<Beat(1, FALSE)>>

\* C34: every tempo a Ritardando tick stores lies between start_bpm and
\* target_bpm, both included, and is at least 1, also after an
\* UpdateRitardandoSettings applied in the middle of a ramp
C34_RitardandoTempoInRange ==
    [][TickOf(Ritardando) =>
          LET rt == local_ritardando_state
          IN  /\ bpm' >= Min(rt.start_bpm, rt.target_bpm)
              /\ bpm' <= Max(rt.start_bpm, rt.target_bpm)
              /\ bpm' >= 1]_vars

\* C35: the countdown is timed from the latest Start, not from the switch
\* to Countdown mode: Start restarts its clock and ChangeMode leaves it
\* alone, and a timing decision that finds a running session in Countdown
\* mode with duration_seconds or more elapsed since the Start stops the
\* session and sends CountdownFinished alone, with no beat counted, however
\* late the mode was switched
C35_CountdownFromStart ==
    [][/\ Taken("Start") => countdown_start_time' = now
       /\ Taken("ChangeMode") =>
             countdown_start_time' = countdown_start_time
       /\ (/\ RunningDecision
           /\ mode = Countdown
           /\ now - countdown_start_time
                 >= local_countdown_state.duration_seconds * 1000) =>
             /\ ~is_running'
             /\ event_sender' = <<CountdownFinished>>
             /\ tick_count' = tick_count]_vars

\* a countdown of 1 s, in a session started in Standard mode and switched
\* to Countdown after its second beat: the iteration 1.5 s after the Start
\* applies the switch and finishes the countdown
C35_Witness ==
    /\ finished = 1
    /\ ~is_running
    /\ event_sender = <<CountdownFinished>>
    /\ mode = Countdown
    /\ local_countdown_state.duration_seconds = 1
    /\ countdown_start_time = 0
    /\ now = 1500
    /\ tick_count = 2

\* C36: the two threads never deadlock: whenever metronome_thread waits in
\* write() for a record, the presentation thread, which holds the guard and
\* may have sent commands from inside it, can go on and drop it, and the
\* waiting thread then gets the lock: it applies the update and the
\* commands behind it and goes on to its timing decision
C36_NoDeadlock ==
    /\ [](Blocked => ENABLED UiUnlock)
    /\ Blocked ~> (pc = "decide")

\* metronome_thread waits for the practice record while the panel, inside
\* its try_write block, has sent a second update
C36_Witness ==
    /\ Blocked
    /\ ui_guard = Practice
    /\ Len(command_receiver) = 2
    /\ command_receiver[2].type = "UpdatePracticeSettings"

(***************************************************************************)
(* gui-metronome: the counters of random mode under the key handlers       *)
(***************************************************************************)
\* C37: in gui-metronome remaining_ticks never exceeds random_count once a
\* key handler has returned, whatever keys are pressed and whenever the beat
\* loop ticks
C37_TerminalRemainingBound ==
    key_pc = "idle" =>
        atomic_state.remaining_ticks <= atomic_state.random_count

\* C38: in gui-metronome remaining_ticks is 0 whenever random mode is off,
\* no key handler is under way and the beat loop is between two ticks
C38_OffMeansNoCountdown ==
    (key_pc = "idle" /\ loop_pc = "wait" /\ ~atomic_state.random_mode) =>
        atomic_state.remaining_ticks = 0

\* C39 (as stated): a tick is counted and PlayTick sent only while
\* is_running is true: none follows toggle_metronome's store of false
C39_NoTickAfterStop ==
    [][loop_ticks' # loop_ticks => atomic_state.is_running]_vars

\* C39 (amended): after toggle_metronome has stored false at most one tick
\* is counted, that of the iteration which had loaded is_running before
\* the store, and an iteration goes on to tick only on loading true
C39_OneTickAfterStop ==
    /\ [](late_ticks <= 1)
    /\ [][(loop_pc # "tick" /\ loop_pc' = "tick") =>
             atomic_state.is_running]_vars

\* toggle_metronome has returned from stopping and the loop has finished
\* the tick that was under way
C39_Witness ==
    /\ ~atomic_state.is_running
    /\ key_pc = "idle"
    /\ loop_pc = "wait"
    /\ late_ticks = 1

(***************************************************************************)
(* metronome (src/main.rs): the mutex                                      *)
(***************************************************************************)
\* C40: metronome_loop holds no guard of the state mutex while it sleeps,
\* whether the metronome is running or stopped
C40_NoSleepUnderLock ==
    mutex_pc \in {"idle", "sleep"} => state_guard # "metronome_loop"

====
